---------------------------- MODULE Spec2Model ----------------------------
(***************************************************************************)
(* CX TimeFilter MCP server: the tool-call pipeline of src/src/server.js   *)
(* (auth gate, lookup, argument validation, execution, envelope), the      *)
(* tools of src/src/utils/mcp-protocol.js and the envelope builders.       *)
(*                                                                         *)
(* JavaScript strings that the code inspects character by character are    *)
(* sequences of one-character strings; tool names, code names and methods, *)
(* which the code only compares for equality, are TLA+ strings.            *)
(***************************************************************************)
EXTENDS Integers, Sequences, FiniteSets, TLC

VARIABLES
    apiKey,     \* process.env.MCP_API_KEY: a JS value, undefined when not set
    clock,      \* ticks of the wall clock since the server started
    suspended,  \* the handler suspended at `await tool.execute(...)`, if any
    last,       \* the last response sent, with the request it answers
    call        \* the last direct call of a library function, with its result

vars == <<apiKey, clock, suspended, last, call>>

-----------------------------------------------------------------------------
(* Bounds of the model *)

MaxClock == 1

-----------------------------------------------------------------------------
(* JavaScript values and strings *)

Undefined == [t |-> "undefined", v |-> <<>>]
Null == [t |-> "null", v |-> <<>>]
JSString(s) == [t |-> "string", v |-> s]
JSOther(type) == [t |-> type, v |-> <<>>]
JSNumber(n) == [t |-> "number", n |-> n]
JSFunction == [t |-> "function", n |-> 0]

UpperAlpha == <<"A","B","C","D","E","F","G","H","I","J","K","L","M","N","O","P","Q","R","S","T","U","V","W","X","Y","Z">>
LowerAlpha == <<"a","b","c","d","e","f","g","h","i","j","k","l","m","n","o","p","q","r","s","t","u","v","w","x","y","z">>
Digits == <<"0","1","2","3","4","5","6","7","8","9">>

IndexOf(seq, c) == IF \E i \in 1..Len(seq) : seq[i] = c
                   THEN CHOOSE i \in 1..Len(seq) : seq[i] = c
                   ELSE 0

\* String.prototype.toLowerCase, on the ASCII letters the inputs use
toLowerCase(s) ==
    [i \in 1..Len(s) |->
        IF IndexOf(UpperAlpha, s[i]) > 0 THEN LowerAlpha[IndexOf(UpperAlpha, s[i])]
        ELSE s[i]]

toUpperCase(s) ==
    [i \in 1..Len(s) |->
        IF IndexOf(LowerAlpha, s[i]) > 0 THEN UpperAlpha[IndexOf(LowerAlpha, s[i])]
        ELSE s[i]]

\* String.prototype.includes
includes(s, sub) ==
    \E i \in 0..(Len(s) - Len(sub)) : SubSeq(s, i + 1, i + Len(sub)) = sub

\* String.prototype.startsWith
startsWith(s, prefix) ==
    /\ Len(prefix) <= Len(s)
    /\ SubSeq(s, 1, Len(prefix)) = prefix

\* String.prototype.substring(from)
substring(s, from) == SubSeq(s, from + 1, Len(s))

\* String.prototype.replace with string arguments: the first occurrence only
replaceFirst(s, c, d) ==
    IF IndexOf(s, c) = 0 THEN s
    ELSE [i \in 1..Len(s) |-> IF i = IndexOf(s, c) THEN d ELSE s[i]]

RECURSIVE join(_, _)
\* Array.prototype.join
join(strs, sep) ==
    IF Len(strs) = 0 THEN <<>>
    ELSE IF Len(strs) = 1 THEN strs[1]
    ELSE strs[1] \o sep \o join(Tail(strs), sep)

JSBoolean(b) == [t |-> "boolean", b |-> b]

\* JavaScript truthiness of a value: !x is true of undefined, null, "", 0 and
\* false
Falsy(x) == \/ x.t \in {"undefined", "null"}
            \/ x.t = "string" /\ Len(x.v) = 0
            \/ x.t = "number" /\ x.n = 0
            \/ x.t = "boolean" /\ ~x.b

-----------------------------------------------------------------------------
(* Dates: instants are hours since 1970-01-01T00:00Z *)

IsDigit(c) == IndexOf(Digits, c) > 0
DigitValue(c) == IndexOf(Digits, c) - 1

RECURSIVE ParseInt(_)
ParseInt(s) == IF Len(s) = 0 THEN 0
               ELSE 10 * ParseInt(SubSeq(s, 1, Len(s) - 1)) + DigitValue(s[Len(s)])

\* /^\d{4}-\d{2}-\d{2}$/.test(s): without the m flag $ is the end of input
MatchesDatePattern(s) ==
    /\ Len(s) = 10
    /\ \A i \in {1, 2, 3, 4, 6, 7, 9, 10} : IsDigit(s[i])
    /\ s[5] = "-"
    /\ s[8] = "-"

\* days from 1970-01-01 to the civil date; a day past the month's end runs
\* into the next month
DaysFromCivil(y, m, d) ==
    LET yy == IF m <= 2 THEN y - 1 ELSE y
        era == yy \div 400
        yoe == yy - era * 400
        mp == IF m > 2 THEN m - 3 ELSE m + 9
        doy == (153 * mp + 2) \div 5 + d - 1
        doe == yoe * 365 + yoe \div 4 - yoe \div 100 + doy
    IN  era * 146097 + doe - 719468

\* an Invalid Date has the time value NaN
InvalidDate == [nan |-> TRUE, time |-> 0]
ValidDate(t) == [nan |-> FALSE, time |-> t]

\* new Date(s) for a date-only string, which is read as UTC midnight; month
\* 1..12 and day 1..31 are accepted, anything else is an Invalid Date
DateParse(s) ==
    IF ~MatchesDatePattern(s) THEN InvalidDate
    ELSE LET y == ParseInt(SubSeq(s, 1, 4))
             m == ParseInt(SubSeq(s, 6, 7))
             d == ParseInt(SubSeq(s, 9, 10))
         IN  IF m \in 1..12 /\ d \in 1..31
             THEN ValidDate(DaysFromCivil(y, m, d) * 24)
             ELSE InvalidDate

\* isNaN(date.getTime())
isNaN(date) == date.nan

\* a comparison that also holds of equal instants
After_OrEqual(date, other) == ~date.nan /\ ~other.nan /\ date.time >= other.time

\* date > other, false when either is an Invalid Date
After(date, other) == ~date.nan /\ ~other.nan /\ date.time > other.time

\* Date.prototype.toISOString: the instant as text
toISOString(date) == [iso |-> date.time]

ServerStart == DaysFromCivil(2024, 6, 15) * 24 + 12

\* new Date(): one tick of the clock is a day
Now(c) == ValidDate(ServerStart + c * 24)

-----------------------------------------------------------------------------
(* The period catalog and the tools (src/src/utils/mcp-protocol.js) *)

Period(name, scale, isCustom) == [name |-> name, scale |-> scale, isCustom |-> isCustom]

PREDEFINED_PERIODS == <<
    Period(<<"A","l","l"," ","T","i","m","e">>, 0, FALSE),
    Period(<<"T","o","d","a","y">>, 5, FALSE),
    Period(<<"Y","e","s","t","e","r","d","a","y">>, 80, FALSE),
    Period(<<"L","a","s","t"," ","2","4"," ","h","o","u","r","s">>, 10, FALSE),
    Period(<<"T","h","i","s"," ","W","e","e","k">>, 15, FALSE),
    Period(<<"L","a","s","t"," ","W","e","e","k">>, 25, FALSE),
    Period(<<"L","a","s","t"," ","7"," ","d","a","y","s">>, 20, FALSE),
    Period(<<"L","a","s","t"," ","1","4"," ","d","a","y","s">>, 85, FALSE),
    Period(<<"T","h","i","s"," ","M","o","n","t","h">>, 30, FALSE),
    Period(<<"L","a","s","t"," ","M","o","n","t","h">>, 35, FALSE),
    Period(<<"L","a","s","t"," ","3","0"," ","d","a","y","s">>, 50, FALSE),
    Period(<<"T","h","i","s"," ","Q","u","a","r","t","e","r">>, 40, FALSE),
    Period(<<"L","a","s","t"," ","Q","u","a","r","t","e","r">>, 45, FALSE),
    Period(<<"L","a","s","t"," ","9","0"," ","d","a","y","s">>, 55, FALSE),
    Period(<<"L","a","s","t"," ","1","8","0"," ","d","a","y","s">>, 60, FALSE),
    Period(<<"T","h","i","s"," ","Y","e","a","r">>, 65, FALSE),
    Period(<<"L","a","s","t"," ","Y","e","a","r">>, 75, FALSE),
    Period(<<"L","a","s","t"," ","1","2"," ","M","o","n","t","h","s">>, 70, FALSE),
    Period(<<"C","u","s","t","o","m">>, 100, TRUE) >>

PeriodNames == [i \in 1..Len(PREDEFINED_PERIODS) |-> PREDEFINED_PERIODS[i].name]

TabNames == << <<"O","v","e","r","v","i","e","w">>, <<"C","o","m","p","a","r","i","s","o","n">>, <<"P","r","e","d","i","c","t","i","o","n">>, <<"T","e","x","t"," ","A","n","a","l","y","s","i","s">>,
               <<"C","u","s","t","o","m","e","r"," ","J","o","u","r","n","e","y">> >>

\* An arguments value: a JSON value, and when it is an object its properties
\* (undefined when the object does not have them)
Args(kind, timePeriodName, tabName, startDate, endDate, extra) ==
    [kind |-> kind, timePeriodName |-> timePeriodName, tabName |-> tabName,
     startDate |-> startDate, endDate |-> endDate, extra |-> extra]

NonObject(kind) == Args(kind, Undefined, Undefined, Undefined, Undefined, Undefined)
EmptyObject == NonObject("object")

ArgKeys == <<"timePeriodName", "tabName", "startDate", "endDate", "extra">>

Prop(args, key) ==
    CASE key = "timePeriodName" -> args.timePeriodName
      [] key = "tabName" -> args.tabName
      [] key = "startDate" -> args.startDate
      [] key = "endDate" -> args.endDate
      [] OTHER -> args.extra

ArgsFalsy(args) == args.kind \in {"undefined", "null"}

(* zod *)

Issue(path, message) == [path |-> path, message |-> message]

\* a check of a z.string(): min(1, message) or regex(/^\d{4}-\d{2}-\d{2}$/, message)
ZString(key, check, message) == [key |-> key, check |-> check, message |-> message]

\* a z.string() whose min(1) check is left out
ZStringIssues_NoMin(field, value) ==
    IF value.t = "undefined" THEN << Issue(field.key, "Required") >>
    ELSE IF value.t # "string"
    THEN << Issue(field.key, "Expected string, received " \o value.t) >>
    ELSE IF field.check = "date" /\ ~MatchesDatePattern(value.v)
    THEN << Issue(field.key, field.message) >>
    ELSE << >>

ZStringIssues(field, value) ==
    IF value.t = "undefined" THEN << Issue(field.key, "Required") >>
    ELSE IF value.t # "string"
    THEN << Issue(field.key, "Expected string, received " \o value.t) >>
    ELSE IF field.check = "min1" /\ Len(value.v) < 1
    THEN << Issue(field.key, field.message) >>
    ELSE IF field.check = "date" /\ ~MatchesDatePattern(value.v)
    THEN << Issue(field.key, field.message) >>
    ELSE << >>

RECURSIVE ZObjectIssues(_, _)
ZObjectIssues(shape, args) ==
    IF Len(shape) = 0 THEN << >>
    ELSE ZStringIssues(shape[1], Prop(args, shape[1].key))
            \o ZObjectIssues(Tail(shape), args)

\* the parsed object has the declared keys only
ZStrip(shape, args) ==
    LET keep(key) == IF \E i \in 1..Len(shape) : shape[i].key = key
                     THEN Prop(args, key) ELSE Undefined
    IN  Args("object", keep("timePeriodName"), keep("tabName"), keep("startDate"),
             keep("endDate"), keep("extra"))

\* z.object(shape).parse(args): the parsed object, or the ZodError thrown
ZParse(shape, args) ==
    LET issues == IF args.kind = "undefined" THEN << Issue("", "Required") >>
                  ELSE IF args.kind # "object"
                  THEN << Issue("", "Expected object, received " \o args.kind) >>
                  ELSE ZObjectIssues(shape, args)
    IN  IF Len(issues) = 0
        THEN [threw |-> FALSE, value |-> ZStrip(shape, args), issues |-> issues]
        ELSE [threw |-> TRUE, value |-> NonObject("undefined"), issues |-> issues]

setTimePeriodSchema == <<
    ZString("timePeriodName", "min1", "Time period name is required"),
    ZString("tabName", "min1", "Tab name is required") >>

setCustomDateRangeSchema == <<
    ZString("startDate", "date", "Start date must be in YYYY-MM-DD format"),
    ZString("endDate", "date", "End date must be in YYYY-MM-DD format"),
    ZString("tabName", "min1", "Tab name is required") >>

(* tool definitions: name, description and inputSchema; validateArgs and
   execute are the operators below, chosen by the tool's name *)

SchemaProperty(key, type, enum, pattern) ==
    [key |-> key, type |-> type, enum |-> enum, pattern |-> pattern]

setTimePeriodTool ==
    [name |-> "set_time_period",
     description |-> "Set a predefined time period for dashboard tabs.",
     inputSchema |->
        [type |-> "object",
         properties |-> << SchemaProperty("timePeriodName", "string", PeriodNames, ""),
                           SchemaProperty("tabName", "string", TabNames, "") >>,
         required |-> <<"timePeriodName", "tabName">>]]

setCustomDateRangeTool ==
    [name |-> "set_custom_date_range",
     description |-> "Set a custom date range with specific start and end dates.",
     inputSchema |->
        [type |-> "object",
         properties |-> << SchemaProperty("startDate", "string", <<>>, "^\\d{4}-\\d{2}-\\d{2}$"),
                           SchemaProperty("endDate", "string", <<>>, "^\\d{4}-\\d{2}-\\d{2}$"),
                           SchemaProperty("tabName", "string", TabNames, "") >>,
         required |-> <<"startDate", "endDate", "tabName">>]]

listTimePeriodsTools ==
    [name |-> "list_time_periods",
     description |-> "List all available predefined time periods.",
     inputSchema |-> [type |-> "object", properties |-> <<>>, required |-> <<>>]]

timeFilterTools == << setTimePeriodTool, setCustomDateRangeTool, listTimePeriodsTools >>

(* validateArgs: { success: true, data } or { success: false, error } *)

\* a validator that reports success whatever the parse did
Validation_AlwaysSuccess(parsed) ==
    [success |-> TRUE, data |-> parsed.value, error |-> parsed.issues]

Validation(parsed) ==
    [success |-> ~parsed.threw, data |-> parsed.value, error |-> parsed.issues]

setTimePeriod_validateArgs(args) == Validation(ZParse(setTimePeriodSchema, args))

setCustomDateRange_validateArgs(args) == Validation(ZParse(setCustomDateRangeSchema, args))

listTimePeriods_validateArgs(args) == [success |-> TRUE, data |-> args, error |-> << >>]

validateArgs(tool, args) ==
    CASE tool.name = "set_time_period" -> setTimePeriod_validateArgs(args)
      [] tool.name = "set_custom_date_range" -> setCustomDateRange_validateArgs(args)
      [] OTHER -> listTimePeriods_validateArgs(args)

(* execute: the promise it returns is fulfilled with an outcome, or rejected
   when binding the parameter pattern fails, which happens outside the try *)

Msg(text, parts) == [text |-> text, parts |-> parts]

Fulfilled(outcome) == [threw |-> FALSE, value |-> outcome, fault |-> <<>>]
Rejected(fault) == [threw |-> TRUE, value |-> [success |-> FALSE], fault |-> fault]

\* const { a, b } = value throws a TypeError on undefined and null
CannotDestructure(args) == args.kind \in {"undefined", "null"}

DestructureFault == <<"C","a","n","n","o","t"," ","d","e","s","t","r","u","c","t","u","r","e"," ","p","r","o","p","e","r","t","y"," ","o","f"," ","u","n","d","e","f","i","n","e","d">>

\* the outcome of a catch block inside an executor
CaughtOutcome(text, fault) ==
    [success |-> FALSE, message |-> Msg(text, <<fault>>), error |-> fault]

\* a match that leaves the period's name in its own letter case
PeriodMatches_CaseSensitive(period, searchKey) ==
    \/ includes(period.name, searchKey)
    \/ includes(searchKey, period.name)

PeriodMatches(period, searchKey) ==
    \/ includes(toLowerCase(period.name), searchKey)
    \/ includes(searchKey, toLowerCase(period.name))

\* the index of the period the for loop breaks on, 0 when it runs to the end
SelectPeriod(searchKey) ==
    LET hits == {i \in 1..Len(PREDEFINED_PERIODS) :
                    PeriodMatches(PREDEFINED_PERIODS[i], searchKey)}
    IN  IF hits = {} THEN 0
        ELSE CHOOSE i \in hits : \A j \in hits : i <= j

FilterTarget(tabName) == <<"f","i","l","t","e","r","-">> \o replaceFirst(toLowerCase(tabName), " ", "-")

Action(tabName, filterConfig) ==
    [type |-> "time_period_changed", target |-> FilterTarget(tabName),
     data |-> filterConfig]

\* a configuration that carries the placeholder dates of every period
PeriodFilterConfig_AlwaysDates(period, tabName, t) ==
    [periodScale |-> period.scale, tabName |-> tabName,
     periodName |-> period.name, isCustom |-> period.isCustom,
     timestamp |-> toISOString(t),
     startDate |-> toISOString(t), endDate |-> toISOString(t)]

PeriodFilterConfig(period, tabName, t) ==
    LET base == [periodScale |-> period.scale, tabName |-> tabName,
                 periodName |-> period.name, isCustom |-> period.isCustom,
                 timestamp |-> toISOString(t)]
    IN  IF period.scale = 100
        THEN [periodScale |-> period.scale, tabName |-> tabName,
              periodName |-> period.name, isCustom |-> period.isCustom,
              timestamp |-> toISOString(t),
              startDate |-> toISOString(t), endDate |-> toISOString(t)]
        ELSE base

setTimePeriod_execute(data, t) ==
    IF CannotDestructure(data) THEN Rejected(DestructureFault)
    ELSE IF data.timePeriodName.t # "string"
    THEN Fulfilled(CaughtOutcome("Error setting time period: %",
                                 <<"t","i","m","e","P","e","r","i","o","d","N","a","m","e",".","t","o","L","o","w","e","r","C","a","s","e"," ","i","s"," ","n","o","t"," ","a"," ","f","u","n","c","t","i","o","n">>))
    ELSE
      LET timePeriodName == data.timePeriodName.v
          searchKey == toLowerCase(timePeriodName)
          selected == SelectPeriod(searchKey)
      IN  IF selected = 0
          THEN Fulfilled(
                 [success |-> FALSE,
                  message |-> Msg("Time period % not found. Available periods: %",
                                  <<timePeriodName, join(PeriodNames, <<","," ">>)>>),
                  availablePeriods |-> PeriodNames])
          ELSE IF data.tabName.t # "string"
          THEN Fulfilled(CaughtOutcome("Error setting time period: %",
                                       <<"t","a","b","N","a","m","e",".","t","o","L","o","w","e","r","C","a","s","e"," ","i","s"," ","n","o","t"," ","a"," ","f","u","n","c","t","i","o","n">>))
          ELSE
            LET selectedPeriod == PREDEFINED_PERIODS[selected]
                tabName == data.tabName.v
                filterConfig == PeriodFilterConfig(selectedPeriod, tabName, t)
            IN  Fulfilled(
                  [success |-> TRUE,
                   message |-> Msg("Successfully set time filter to % for % tab.",
                                   <<selectedPeriod.name, tabName>>),
                   filterConfig |-> filterConfig,
                   action |-> Action(tabName, filterConfig)])

FailedOutcome(text, parts) == [success |-> FALSE, message |-> Msg(text, parts)]

setCustomDateRange_execute(data, t) ==
    IF CannotDestructure(data) THEN Rejected(DestructureFault)
    ELSE
      LET startDate == data.startDate.v
          endDate == data.endDate.v
          start == IF data.startDate.t = "string" THEN DateParse(startDate)
                   ELSE InvalidDate
          end == IF data.endDate.t = "string" THEN DateParse(endDate)
                 ELSE InvalidDate
      IN  IF isNaN(start)
          THEN Fulfilled(FailedOutcome("Invalid start date: %. Please use format YYYY-MM-DD",
                                       <<startDate>>))
          ELSE IF isNaN(end)
          THEN Fulfilled(FailedOutcome("Invalid end date: %. Please use format YYYY-MM-DD",
                                       <<endDate>>))
          ELSE IF After(start, end)
          THEN Fulfilled(FailedOutcome("Start date cannot be after end date", <<>>))
          ELSE IF After(end, t)
          THEN Fulfilled(FailedOutcome("End date cannot be in the future", <<>>))
          ELSE IF data.tabName.t # "string"
          THEN Fulfilled(CaughtOutcome("Error setting custom date range: %",
                                       <<"t","a","b","N","a","m","e",".","t","o","L","o","w","e","r","C","a","s","e"," ","i","s"," ","n","o","t"," ","a"," ","f","u","n","c","t","i","o","n">>))
          ELSE
            LET tabName == data.tabName.v
                dateRangeText == startDate \o <<" ","t","o"," ">> \o endDate
                filterConfig ==
                    [periodScale |-> 100,
                     startDate |-> toISOString(start),
                     endDate |-> toISOString(end),
                     tabName |-> tabName,
                     periodName |-> <<"C","u","s","t","o","m"," ","(">> \o dateRangeText \o <<")">>,
                     isCustom |-> TRUE,
                     timestamp |-> toISOString(t)]
            IN  Fulfilled(
                  [success |-> TRUE,
                   message |-> Msg("Successfully set custom date range % for % tab.",
                                   <<dateRangeText, tabName>>),
                   filterConfig |-> filterConfig,
                   action |-> Action(tabName, filterConfig)])

Category(period) ==
    IF period.isCustom THEN "Custom"
    ELSE IF \/ includes(period.name, <<"T","h","i","s">>)
            \/ /\ includes(period.name, <<"L","a","s","t">>)
               /\ ~includes(period.name, <<"d","a","y","s">>)
               /\ ~includes(period.name, <<"h","o","u","r","s">>)
    THEN "Calendar"
    ELSE "Rolling"

PeriodsInfo ==
    [i \in 1..Len(PREDEFINED_PERIODS) |->
        [name |-> PREDEFINED_PERIODS[i].name, scale |-> PREDEFINED_PERIODS[i].scale,
         isCustom |-> PREDEFINED_PERIODS[i].isCustom,
         category |-> Category(PREDEFINED_PERIODS[i])]]

InCategory(category) ==
    LET Test(p) == p.category = category
    IN  SelectSeq(PeriodsInfo, Test)

Bullets(periods) ==
    join([i \in 1..Len(periods) |-> <<"*"," ">> \o periods[i].name], <<"\n">>)

listTimePeriods_execute(data, t) ==
    LET calendarPeriods == InCategory("Calendar")
        rollingPeriods == InCategory("Rolling")
        customPeriods == InCategory("Custom")
    IN  Fulfilled(
          [success |-> TRUE,
           message |-> Msg("Available Time Periods: Calendar % Rolling % Custom %",
                           <<Bullets(calendarPeriods), Bullets(rollingPeriods),
                             Bullets(customPeriods)>>),
           data |-> [calendarPeriods |-> calendarPeriods,
                     rollingPeriods |-> rollingPeriods,
                     customPeriods |-> customPeriods,
                     totalCount |-> Len(PeriodsInfo)]])

execute(tool, data, t) ==
    CASE tool.name = "set_time_period" -> setTimePeriod_execute(data, t)
      [] tool.name = "set_custom_date_range" -> setCustomDateRange_execute(data, t)
      [] OTHER -> listTimePeriods_execute(data, t)

-----------------------------------------------------------------------------
(* Envelope builders (src/src/utils/mcp-protocol.js) *)

\* `mcp_${Date.now()}_${Math.random()...}`: the time and a random suffix, which
\* nothing reads
generateId(t) == [prefix |-> "mcp", ts |-> t.time, rnd |-> "random"]

ErrorCodeNames == <<"PARSE_ERROR", "INVALID_REQUEST", "METHOD_NOT_FOUND",
                    "INVALID_PARAMS", "INTERNAL_ERROR", "NOT_FOUND", "UNAUTHORIZED",
                    "FORBIDDEN", "TIMEOUT">>
ErrorCodeNumbers == <<-32700, -32600, -32601, -32602, -32603, -32000, -32001,
                      -32002, -32003>>

\* the properties every object literal inherits from Object.prototype
ObjectPrototypeKeys == {"constructor", "toString", "toLocaleString", "valueOf",
                        "hasOwnProperty", "isPrototypeOf", "propertyIsEnumerable",
                        "__proto__"}

\* errorCodes[code]: an own property, an inherited one, or undefined
errorCodes(code) ==
    IF IndexOf(ErrorCodeNames, code) > 0
    THEN JSNumber(ErrorCodeNumbers[IndexOf(ErrorCodeNames, code)])
    ELSE IF code = "__proto__" THEN [t |-> "object", n |-> 0]
    ELSE IF code \in ObjectPrototypeKeys THEN JSFunction
    ELSE [t |-> "undefined", n |-> 0]

\* errorCodes[code] || -32000
getErrorCode(code) ==
    IF errorCodes(code).t = "undefined" \/ errorCodes(code) = JSNumber(0)
    THEN JSNumber(-32000)
    ELSE errorCodes(code)

createMCPResponse(method, result, id) ==
    [jsonrpc |-> "2.0", id |-> id, result |-> result]

\* data is attached when it is truthy
createMCPError(code, message, data, id) ==
    [jsonrpc |-> "2.0", id |-> id,
     error |-> IF Falsy(data)
               THEN [code |-> getErrorCode(code), message |-> message]
               ELSE [code |-> getErrorCode(code), message |-> message, data |-> data]]

\* JSON.stringify(result, null, 2)
JSONStringify(value) == [json |-> value]

-----------------------------------------------------------------------------
(* Requests *)

\* a tool name as sent: a string, or undefined when the body has none
JSName(s) == [t |-> "string", s |-> s]
NoName == [t |-> "undefined", s |-> ""]
NameFalsy(name) == name.t = "undefined" \/ name.s = ""

\* POST /mcp/tools/call with body { name, arguments }
ToolsCallRequest(authorization, name, arguments) ==
    [ep |-> "POST /mcp/tools/call", body |-> "json", authorization |-> authorization,
     method |-> "", params |-> "undefined", name |-> name, arguments |-> arguments]

\* POST /mcp with body { method, params: { name, arguments } }
McpRequest(authorization, method, name, arguments) ==
    [ep |-> "POST /mcp", body |-> "json", authorization |-> authorization,
     method |-> method, params |-> "object", name |-> name, arguments |-> arguments]

\* POST /mcp with body { method } and no params
McpRequestNoParams(authorization, method) ==
    [ep |-> "POST /mcp", body |-> "json", authorization |-> authorization,
     method |-> method, params |-> "undefined", name |-> NoName,
     arguments |-> NonObject("undefined")]

\* GET /mcp/tools
ToolsListRequest(authorization) ==
    [ep |-> "GET /mcp/tools", body |-> "none", authorization |-> authorization,
     method |-> "", params |-> "undefined", name |-> NoName,
     arguments |-> NonObject("undefined")]

\* a POST whose JSON body express.json() cannot parse
MalformedRequest(ep, authorization) ==
    [ep |-> ep, body |-> "malformed", authorization |-> authorization,
     method |-> "", params |-> "undefined", name |-> NoName,
     arguments |-> NonObject("undefined")]

\* a request to a path no route matches
UnroutedRequest(ep, authorization) ==
    [ep |-> ep, body |-> "json", authorization |-> authorization,
     method |-> "", params |-> "undefined", name |-> NoName,
     arguments |-> NonObject("undefined")]

Routes == {"GET /mcp/tools", "POST /mcp/tools/call", "POST /mcp"}

-----------------------------------------------------------------------------
(* The auth gate (src/src/middleware/auth.js) *)

NoFault == << >>

\* res.status(status).json(body), in a catch block with the fault caught
Caught(status, body, steps, fault) ==
    [kind |-> "send", status |-> status, body |-> body, steps |-> steps,
     fault |-> fault]

\* res.status(status).json(body)
Send(status, body, steps) == Caught(status, body, steps, NoFault)

\* a gate that answers 403 with the same body
Unauthorized_Forbidden(text) ==
    Send(403, [jsonrpc |-> "2.0",
               error |-> [code |-> JSNumber(-32001), message |-> Msg(text, <<>>)]],
         <<"auth">>)

Unauthorized(text) ==
    Send(401, [jsonrpc |-> "2.0",
               error |-> [code |-> JSNumber(-32001), message |-> Msg(text, <<>>)]],
         <<"auth">>)

ProvidedKey(authHeader) ==
    IF startsWith(authHeader, <<"B","e","a","r","e","r"," ">>) THEN substring(authHeader, 7)
    ELSE IF startsWith(authHeader, <<"A","p","i","K","e","y"," ">>) THEN substring(authHeader, 7)
    ELSE IF startsWith(authHeader, <<"K","e","y"," ">>) THEN substring(authHeader, 4)
    ELSE authHeader

\* next() is called, or the 401 reply is sent
authMiddleware(requiredApiKey, req) ==
    IF Falsy(requiredApiKey) THEN [kind |-> "next"]
    ELSE IF Falsy(req.authorization) THEN Unauthorized("Authorization header required")
    ELSE IF ProvidedKey(req.authorization.v) # requiredApiKey.v
    THEN Unauthorized("Invalid API key")
    ELSE [kind |-> "next"]

-----------------------------------------------------------------------------
(* The handlers (src/src/server.js). The try block of a handler sends its
   response, suspends at `await tool.execute(...)` with the promise it awaits,
   or throws; the catch block answers what the try block threw. `steps` lists
   what ran for the request, in order. *)

Await(promise, steps) == [kind |-> "await", promise |-> promise, steps |-> steps]
Throw(fault, steps) == [kind |-> "throw", fault |-> fault, steps |-> steps]

\* a lookup that falls back to the first tool when no name matches
find_FirstOnMiss(name) ==
    IF name.t = "string" /\ \E i \in 1..Len(timeFilterTools) : timeFilterTools[i].name = name.s
    THEN CHOOSE i \in 1..Len(timeFilterTools) : timeFilterTools[i].name = name.s
    ELSE 1

\* timeFilterTools.find((t) => t.name === name): an index, 0 for undefined
find(name) ==
    IF name.t = "string" /\ \E i \in 1..Len(timeFilterTools) : timeFilterTools[i].name = name.s
    THEN CHOOSE i \in 1..Len(timeFilterTools) : timeFilterTools[i].name = name.s
    ELSE 0

NameMsg(text, name) == [text |-> text, name |-> name]
ReasonMsg(text, reason) == [text |-> text, reason |-> reason]

\* a listing that runs through the registry from its end
ToolListing_Reversed ==
    [tools |-> [i \in 1..Len(timeFilterTools) |->
                    [name |-> timeFilterTools[Len(timeFilterTools) + 1 - i].name,
                     description |-> timeFilterTools[Len(timeFilterTools) + 1 - i].description,
                     inputSchema |-> timeFilterTools[Len(timeFilterTools) + 1 - i].inputSchema]]]

ToolListing ==
    [tools |-> [i \in 1..Len(timeFilterTools) |->
                    [name |-> timeFilterTools[i].name,
                     description |-> timeFilterTools[i].description,
                     inputSchema |-> timeFilterTools[i].inputSchema]]]

ToolResult(result) ==
    [content |-> << [type |-> "text", text |-> JSONStringify(result)] >>]

\* app.get("/mcp/tools")
toolsListHandler(req, t) ==
    Send(200, createMCPResponse("tools/list", ToolListing, generateId(t)),
         <<"auth", "list">>)

\* app.post("/mcp/tools/call"): the try block up to its await
toolsCallTry(req, t) ==
    LET name == req.name
        toolArgs == req.arguments
        id == generateId(t)
    IN  IF NameFalsy(name) \/ ArgsFalsy(toolArgs)
        THEN Send(400, createMCPError("INVALID_REQUEST",
                                      Msg("Missing tool name or arguments", <<>>),
                                      Null, id),
                  <<"auth">>)
        ELSE IF find(name) = 0
        THEN Send(404, createMCPError("METHOD_NOT_FOUND",
                                      NameMsg("Tool % not found", name), Null, id),
                  <<"auth", "lookup">>)
        ELSE
          LET tool == timeFilterTools[find(name)]
              validation == validateArgs(tool, toolArgs)
          IN  IF ~validation.success
              THEN Send(400, createMCPError("INVALID_PARAMS",
                                            ReasonMsg("Invalid arguments: %",
                                                      validation.error),
                                            Null, id),
                        <<"auth", "lookup", "validate">>)
              ELSE Await(execute(tool, validation.data, t),
                         <<"auth", "lookup", "validate", "execute">>)

\* a handler that reports an outcome with success false as an error envelope
toolsCallAwaited_FailureAsError(promise, steps, t) ==
    IF promise.threw THEN Throw(promise.fault, steps)
    ELSE IF ~promise.value.success
    THEN Send(400, createMCPError("INVALID_PARAMS", promise.value.message, Null,
                                  generateId(t)),
              Append(steps, "respond"))
    ELSE Send(200, createMCPResponse("tools/call", ToolResult(promise.value),
                                     generateId(t)),
              Append(steps, "respond"))

\* app.post("/mcp/tools/call"): the try block from its await on
toolsCallAwaited(promise, steps, t) ==
    IF promise.threw THEN Throw(promise.fault, steps)
    ELSE Send(200, createMCPResponse("tools/call", ToolResult(promise.value),
                                     generateId(t)),
              Append(steps, "respond"))

\* app.post("/mcp/tools/call"): the catch block
toolsCallCatch(outcome, t) ==
    IF outcome.kind = "throw"
    THEN Caught(500, createMCPError("INTERNAL_ERROR",
                                    Msg("Tool execution failed: %", <<outcome.fault>>),
                                    Null, generateId(t)),
                Append(outcome.steps, "respond"), outcome.fault)
    ELSE outcome

toolsCallHandler(req, t) == toolsCallCatch(toolsCallTry(req, t), t)
toolsCallResume(promise, steps, t) ==
    toolsCallCatch(toolsCallAwaited(promise, steps, t), t)

InitializeResult ==
    [protocolVersion |-> "2024-11-05",
     serverInfo |-> [name |-> "CX TimeFilter MCP Server", version |-> "1.0.0"],
     capabilities |-> [tools |-> [listChanged |-> FALSE]]]

\* const { name, arguments: toolArgs } = params, when the body has no params
ParamsFault == <<"C","a","n","n","o","t"," ","d","e","s","t","r","u","c","t","u","r","e"," ","p","r","o","p","e","r","t","y"," ","'","n","a","m","e","'"," ","o","f"," ","'","p","a","r","a","m","s","'"," ","a","s"," ","i","t"," ","i","s"," ","u","n","d","e","f","i","n","e","d",".">>

\* app.post("/mcp"): the try block up to its await
mcpTry(req, t) ==
    LET id == generateId(t)
    IN  CASE req.method = "initialize" ->
               Send(200, createMCPResponse("initialize", InitializeResult, id),
                    <<"auth">>)
          [] req.method = "tools/list" ->
               Send(200, createMCPResponse("tools/list", ToolListing, id),
                    <<"auth", "list">>)
          [] req.method = "tools/call" ->
               IF req.params = "undefined" THEN Throw(ParamsFault, <<"auth">>)
               ELSE IF find(req.name) = 0
               THEN Send(404, createMCPError("METHOD_NOT_FOUND",
                                             NameMsg("Tool % not found", req.name),
                                             Null, id),
                         <<"auth", "lookup">>)
               ELSE
                 LET tool == timeFilterTools[find(req.name)]
                     validation == validateArgs(tool, req.arguments)
                 IN  IF ~validation.success
                     THEN Send(400, createMCPError("INVALID_PARAMS",
                                                   ReasonMsg("%", validation.error),
                                                   Null, id),
                               <<"auth", "lookup", "validate">>)
                     ELSE Await(execute(tool, validation.data, t),
                                <<"auth", "lookup", "validate", "execute">>)
          [] OTHER ->
               Send(404, createMCPError("METHOD_NOT_FOUND",
                                        NameMsg("Method % not supported",
                                                JSName(req.method)),
                                        Null, id),
                    <<"auth">>)

\* a handler that runs the executor a second time before it responds
mcpAwaited_Retries(promise, steps, t) ==
    IF promise.threw THEN Throw(promise.fault, steps)
    ELSE Send(200, createMCPResponse("tools/call", ToolResult(promise.value),
                                     generateId(t)),
              steps \o <<"execute", "respond">>)

\* app.post("/mcp"): the try block from its await on
mcpAwaited(promise, steps, t) ==
    IF promise.threw THEN Throw(promise.fault, steps)
    ELSE Send(200, createMCPResponse("tools/call", ToolResult(promise.value),
                                     generateId(t)),
              Append(steps, "respond"))

\* a handler without its catch block
mcpCatch_Rethrows(outcome, t) == outcome

\* app.post("/mcp"): the catch block
mcpCatch(outcome, t) ==
    IF outcome.kind = "throw"
    THEN Caught(500, createMCPError("INTERNAL_ERROR", Msg("%", <<outcome.fault>>),
                                    Null, generateId(t)),
                Append(outcome.steps, "respond"), outcome.fault)
    ELSE outcome

mcpHandler(req, t) == mcpCatch(mcpTry(req, t), t)
mcpResume(promise, steps, t) == mcpCatch(mcpAwaited(promise, steps, t), t)

\* app.use((error, req, res, next) => ...): the error handling middleware, which
\* logs the error and answers with a fixed message
errorHandler(error, t) ==
    Send(500, createMCPError("INTERNAL_ERROR", Msg("An unexpected error occurred", <<>>),
                             Null, generateId(t)),
         << >>)

\* app.use((req, res) => ...): the 404 handler
notFoundHandler(req, t) ==
    Send(404, createMCPError("NOT_FOUND", NameMsg("Endpoint % not found", JSName(req.ep)),
                             Null, generateId(t)),
         << >>)

\* what express.json() passes to next() when the body does not parse
BodyFault == <<"U","n","e","x","p","e","c","t","e","d"," ","t","o","k","e","n"," ","i","n"," ","J","S","O","N">>

\* the route of a request: the body parser, then the auth gate and the
\* handler of the endpoint, or the 404 handler when no route matches
Route(requiredApiKey, req, t) ==
    IF req.body = "malformed" THEN errorHandler(BodyFault, t)
    ELSE IF req.ep \notin Routes THEN notFoundHandler(req, t)
    ELSE IF authMiddleware(requiredApiKey, req).kind # "next"
    THEN authMiddleware(requiredApiKey, req)
    ELSE CASE req.ep = "GET /mcp/tools" -> toolsListHandler(req, t)
           [] req.ep = "POST /mcp/tools/call" -> toolsCallHandler(req, t)
           [] OTHER -> mcpHandler(req, t)

Continue(pending, t) ==
    IF pending.req.ep = "POST /mcp/tools/call"
    THEN toolsCallResume(pending.promise, pending.steps, t)
    ELSE mcpResume(pending.promise, pending.steps, t)

-----------------------------------------------------------------------------
(* The requests the model sends *)

Key1 == <<"k","1">>

GoodHeader == JSString(<<"B","e","a","r","e","r"," ">> \o Key1)
BadHeader == JSString(<<"B","e","a","r","e","r"," ","k","2">>)

Names == { NoName, JSName(""), JSName("nonexistent"), JSName("set_time_period"),
           JSName("set_custom_date_range"), JSName("list_time_periods") }

PeriodArgs(timePeriodName, tabName) ==
    Args("object", timePeriodName, tabName, Undefined, Undefined, Undefined)

RangeArgs(startDate, endDate, tabName) ==
    Args("object", Undefined, JSString(tabName), JSString(startDate),
         JSString(endDate), Undefined)

Arguments ==
    { NonObject("undefined"), NonObject("null"), NonObject("string"), EmptyObject,
      PeriodArgs(JSString(<<"L","a","s","t"," ","M","o","n","t","h">>), JSString(<<"O","v","e","r","v","i","e","w">>)),
      PeriodArgs(JSString(<<"l","a","s","t"," ","m","o","n","t","h">>), JSString(<<"T","e","x","t"," ","A","n","a","l","y","s","i","s">>)),
      PeriodArgs(JSString(<<"N","e","x","t"," ","D","e","c","a","d","e">>), JSString(<<"O","v","e","r","v","i","e","w">>)),
      PeriodArgs(JSString(<<"L","a","s","t"," ","M","o","n","t","h">>), JSString(<<"I","n","v","a","l","i","d","T","a","b">>)),
      PeriodArgs(JSString(<<>>), JSString(<<"O","v","e","r","v","i","e","w">>)),
      PeriodArgs(JSOther("number"), JSString(<<"O","v","e","r","v","i","e","w">>)),
      PeriodArgs(JSString(<<"C","u","s","t","o","m">>), Undefined),
      RangeArgs(<<"2","0","2","4","-","0","1","-","0","1">>, <<"2","0","2","4","-","0","1","-","3","1">>, <<"C","o","m","p","a","r","i","s","o","n">>),
      RangeArgs(<<"2","0","2","4","-","0","2","-","0","1">>, <<"2","0","2","4","-","0","1","-","0","1">>, <<"O","v","e","r","v","i","e","w">>),
      RangeArgs(<<"2","0","2","4","-","0","6","-","0","1">>, <<"2","0","2","4","-","0","6","-","1","6">>, <<"O","v","e","r","v","i","e","w">>),
      RangeArgs(<<"2","0","2","4","-","1","-","1">>, <<"2","0","2","4","-","0","1","-","3","1">>, <<"O","v","e","r","v","i","e","w">>),
      RangeArgs(<<"2","0","2","4","-","1","3","-","4","5">>, <<"2","0","2","4","-","0","1","-","3","1">>, <<"O","v","e","r","v","i","e","w">>),
      RangeArgs(<<"2","0","2","4","-","0","1","-","0","1">>, <<"2","0","2","4","-","0","1","-","0","1">>, <<"P","r","e","d","i","c","t","i","o","n">>) }

\* every body without a credential, and a few bodies with one
Bodies(h, names, arguments) ==
    { ToolsCallRequest(h, n, a) : n \in names, a \in arguments }
    \cup { McpRequest(h, "tools/call", n, a) : n \in names, a \in arguments }
    \cup { McpRequestNoParams(h, m) : m \in {"initialize", "tools/list", "tools/call", "ping"} }
    \cup { ToolsListRequest(h) }
    \cup { MalformedRequest(ep, h) : ep \in {"POST /mcp/tools/call", "POST /mcp"} }
    \cup { UnroutedRequest("POST /mcp/tools", h) }

Requests ==
    Bodies(Undefined, Names, Arguments)
    \cup Bodies(GoodHeader,
                { JSName("nonexistent"), JSName("set_time_period"), JSName("list_time_periods") },
                { NonObject("undefined"), EmptyObject,
                  PeriodArgs(JSString(<<"L","a","s","t"," ","M","o","n","t","h">>), JSString(<<"O","v","e","r","v","i","e","w">>)),
                  PeriodArgs(JSString(<<"N","e","x","t"," ","D","e","c","a","d","e">>), JSString(<<"O","v","e","r","v","i","e","w">>)) })
    \cup Bodies(BadHeader, { JSName("list_time_periods") }, { EmptyObject })

-----------------------------------------------------------------------------
(* The server. Node runs one callback at a time: the handler of a request runs
   until it sends or suspends at its await, and the continuation of a
   suspended handler is a microtask, which runs before any other request is
   taken up. *)

NoHandler == [kind |-> "none"]
NoResponse == [sent |-> FALSE, escaped |-> FALSE]
NoCall == [fn |-> "none"]

\* the response sent, or the fault that left the handler unanswered
Response(req, reply) ==
    IF reply.kind = "send"
    THEN [sent |-> TRUE, escaped |-> FALSE, req |-> req, steps |-> reply.steps,
          status |-> reply.status, body |-> reply.body, fault |-> reply.fault]
    ELSE [sent |-> FALSE, escaped |-> TRUE, req |-> req, steps |-> reply.steps,
          fault |-> reply.fault]

Init ==
    /\ apiKey \in { Undefined, JSString(Key1) }
    /\ clock = 0
    /\ suspended = NoHandler
    /\ last = NoResponse
    /\ call = NoCall

\* a request arrives: the auth gate and the handler run until the response is
\* sent or the handler suspends
Receive ==
    /\ suspended = NoHandler
    /\ \E req \in Requests :
        LET reply == Route(apiKey, req, Now(clock))
        IN  IF reply.kind = "await"
            THEN /\ suspended' = [kind |-> "await", req |-> req,
                                  promise |-> reply.promise, steps |-> reply.steps]
                 /\ UNCHANGED last
            ELSE /\ last' = Response(req, reply)
                 /\ UNCHANGED suspended
    /\ UNCHANGED <<apiKey, clock, call>>

\* the suspended handler resumes and sends its response
Resume ==
    /\ suspended # NoHandler
    /\ last' = Response(suspended.req, Continue(suspended, Now(clock)))
    /\ suspended' = NoHandler
    /\ UNCHANGED <<apiKey, clock, call>>

\* time passes
Tick ==
    /\ clock < MaxClock
    /\ clock' = clock + 1
    /\ UNCHANGED <<apiKey, suspended, last, call>>

Next == Receive \/ Resume \/ Tick

Spec == Init /\ [][Next]_vars

-----------------------------------------------------------------------------
(* What the properties below read of the last response *)

RegisteredNames == { timeFilterTools[i].name : i \in 1..Len(timeFilterTools) }

IsResult(body) == "result" \in DOMAIN body
IsError(body) == "error" \in DOMAIN body
ErrorCode(body) == body.error.code.n

\* the request passed the auth gate
Admitted(req) == Falsy(apiKey) \/ req.authorization = GoodHeader

\* the request is a tool call with a body { name, arguments }
IsToolCall(req) ==
    /\ req.body = "json"
    /\ \/ req.ep = "POST /mcp/tools/call"
       \/ req.ep = "POST /mcp" /\ req.method = "tools/call" /\ req.params = "object"

Answered == last.sent /\ Admitted(last.req) /\ IsToolCall(last.req)

Ran(step) == \E i \in 1..Len(last.steps) : last.steps[i] = step

\* the schema of a tool's validator, by the tool's index in the registry
ZodSchemaOf(i) == CASE i = 1 -> setTimePeriodSchema
                    [] i = 2 -> setCustomDateRangeSchema
                    [] OTHER -> << >>

\* the arguments the validator of tool i rejects
Rejects(i, args) == i \in {1, 2} /\ ZParse(ZodSchemaOf(i), args).threw

-----------------------------------------------------------------------------
\* a tool call whose name is a non-empty string that names no registered tool,
\* with an arguments object
C1_UnknownTool ==
    /\ Answered
    /\ last.req.name.t = "string"
    /\ last.req.name.s # ""
    /\ last.req.name.s \notin RegisteredNames
    /\ last.req.arguments.kind = "object"

(* C1: a tool call whose name names no registered tool, with an arguments
   object, is answered with an error envelope of code -32601
   (METHOD_NOT_FOUND), and no validator and no executor runs for it. An empty
   name counts as a missing one, which is C7's case. *)
C1_UnknownToolIsMethodNotFound ==
    C1_UnknownTool =>
        /\ IsError(last.body)
        /\ ~IsResult(last.body)
        /\ ErrorCode(last.body) = -32601
        /\ ~Ran("validate")
        /\ ~Ran("execute")

C1_Witness ==
    /\ C1_UnknownTool
    /\ last.req.arguments # EmptyObject
    /\ last.req.ep = "POST /mcp/tools/call"
    /\ ErrorCode(last.body) = -32601

\* the validator of the tool that was looked up ran and rejected the arguments
C2_ValidatorRejected ==
    /\ Answered
    /\ Ran("validate")
    /\ Rejects(find(last.req.name), last.req.arguments)

(* C2: when the validator of the tool that was looked up rejects the
   arguments, the call is answered with an error envelope of code -32602
   (INVALID_PARAMS) whose message contains the validator's reason, and the
   executor does not run. *)
C2_RejectedIsInvalidParams ==
    C2_ValidatorRejected =>
        /\ IsError(last.body)
        /\ ~IsResult(last.body)
        /\ ErrorCode(last.body) = -32602
        /\ last.body.error.message.reason
             = ZParse(ZodSchemaOf(find(last.req.name)), last.req.arguments).issues
        /\ Len(last.body.error.message.reason) > 0
        /\ ~Ran("execute")

C2_Witness ==
    /\ C2_ValidatorRejected
    /\ last.req.name.s = "set_custom_date_range"
    /\ ErrorCode(last.body) = -32602

\* POST /mcp with method tools/call and no params, past the auth gate
C3_NoParams ==
    /\ last.req.ep = "POST /mcp"
    /\ last.req.method = "tools/call"
    /\ last.req.params = "undefined"
    /\ Admitted(last.req)

(* C3: a fault raised while a tool call is processed (a rejected promise of
   an executor; on POST /mcp, a tools/call request without params) is caught
   in the handler and answered with an error envelope of code -32603
   (INTERNAL_ERROR) carrying the fault's message; no fault leaves a handler. *)
C3_FaultsAreInternalErrors ==
    /\ ~last.escaped
    /\ (last.sent /\ C3_NoParams) => last.fault = ParamsFault
    /\ (last.sent /\ last.fault # NoFault) =>
          /\ IsError(last.body)
          /\ ~IsResult(last.body)
          /\ ErrorCode(last.body) = -32603
          /\ last.body.error.message.parts = << last.fault >>

C3_Witness ==
    /\ last.sent
    /\ C3_NoParams
    /\ last.fault = ParamsFault
    /\ ErrorCode(last.body) = -32603

\* the tool call passed lookup and validation and its executor returned
C4_Executed ==
    /\ Answered
    /\ Ran("execute")
    /\ last.fault = NoFault

\* the outcome the executor of the request's tool returns at time Now(c)
C4_Outcome(c) ==
    LET tool == timeFilterTools[find(last.req.name)]
    IN  execute(tool, validateArgs(tool, last.req.arguments).data, Now(c)).value

(* C4: when a tool call passes lookup and validation and the executor returns
   an outcome, the response is a success envelope whose result.content is the
   single block {type: "text", text: JSON of the outcome}, whether the
   outcome's success is true or false. *)
C4_OutcomeIsSuccessEnvelope ==
    C4_Executed =>
        /\ IsResult(last.body)
        /\ ~IsError(last.body)
        /\ Len(last.body.result.content) = 1
        /\ last.body.result.content[1].type = "text"
        /\ \E c \in 0..clock :
              last.body.result.content[1].text = JSONStringify(C4_Outcome(c))

C4_Witness ==
    /\ C4_Executed
    /\ IsResult(last.body)
    /\ last.req.name.s = "set_custom_date_range"
    /\ ~last.body.result.content[1].text.json.success

(* C5: every response body of the listing, tool-call and protocol endpoints,
   the auth gate's rejections included, is an envelope with jsonrpc "2.0", an
   id, and exactly one of result and error. *)
C5_EveryBodyIsEnvelope ==
    last.sent =>
        /\ last.body.jsonrpc = "2.0"
        /\ "id" \in DOMAIN last.body
        /\ IsResult(last.body) # IsError(last.body)

(* C7: on both entry points a tool call whose name or arguments is missing is
   answered with INVALID_REQUEST (-32600) before any lookup, validation or
   execution. *)
C7_MissingIsInvalidRequest ==
    ( /\ Answered
      /\ \/ last.req.name.t = "undefined"
         \/ last.req.arguments.kind = "undefined" ) =>
        /\ IsError(last.body)
        /\ ErrorCode(last.body) = -32600
        /\ ~Ran("lookup")
        /\ ~Ran("validate")
        /\ ~Ran("execute")

\* some string argument is not one of the literals its property's enum declares
C8_OutsideEnum(tool, args) ==
    \E i \in 1..Len(tool.inputSchema.properties) :
        LET p == tool.inputSchema.properties[i]
        IN  /\ Len(p.enum) > 0
            /\ Prop(args, p.key).t = "string"
            /\ \A j \in 1..Len(p.enum) : p.enum[j] # Prop(args, p.key).v

(* C8: a string argument that is not one of the literals its property's enum
   declares (a tabName outside the five tab names, a timePeriodName outside
   the catalog names) makes validation fail: the call ends in INVALID_PARAMS
   and the executor does not run. *)
C8_EnumsAreEnforced ==
    ( /\ Answered
      /\ find(last.req.name) # 0
      /\ last.req.arguments.kind = "object"
      /\ C8_OutsideEnum(timeFilterTools[find(last.req.name)], last.req.arguments) ) =>
        /\ IsError(last.body)
        /\ ErrorCode(last.body) = -32602
        /\ ~Ran("execute")

-----------------------------------------------------------------------------
(* Direct calls of the library: createMCPError, a tool's validateArgs, and a
   tool called as src/src/test.js calls it (validateArgs, then execute on the
   validated data). The call is drawn at the start and applied once. *)

ErrorCodeInputs ==
    { ErrorCodeNames[i] : i \in 1..Len(ErrorCodeNames) }
    \cup { "UNKNOWN", "", "not_found", "constructor", "toString", "__proto__" }

\* the data argument: left out, or a value
ErrorDataInputs ==
    { Undefined, Null, JSString(<<>>), JSNumber(0), JSOther("object"),
      JSString(<<"d","e","t","a","i","l">>) }

ErrorCalls ==
    { [fn |-> "createMCPError", done |-> FALSE, code |-> c,
       message |-> Msg("Something failed", <<>>), data |-> d, out |-> NoCall] :
        c \in ErrorCodeInputs, d \in ErrorDataInputs }

NameInputs == { Undefined, Null, JSOther("number"), JSString(<<>>),
                JSString(<<"L","a","s","t"," ","M","o","n","t","h">>), JSString(<<"x">>) }
TabInputs == { Undefined, JSOther("number"), JSString(<<>>), JSString(<<"O","v","e","r","v","i","e","w">>),
               JSString(<<"I","n","v","a","l","i","d","T","a","b">>) }
StartDateInputs ==
    { Undefined, JSOther("number"), JSString(<<>>), JSString(<<"2","0","2","4","-","0","1","-","0","1">>),
      JSString(<<"2","0","2","4","-","1","-","1">>), JSString(<<"2","0","2","4","-","0","1","-","0","1","1">>), JSString(<<"2","0","2","4","/","0","1","/","0","1">>),
      JSString(<<"2","0","2","4","-","1","3","-","4","5">>), JSString(<<"x","2","0","2","4","-","0","1","-","0","1">>), JSString(<<"2","0","2","4","-","0","1","-","0","a">>),
      JSString(<<"2","0","2","4","-","0","1","-","0","1">> \o <<"\n">>) }
EndDateInputs ==
    { Undefined, Null, JSString(<<"2","0","2","4","-","0","1","-","3","1">>), JSString(<<"2","4","-","0","1","-","3","1">>),
      JSString(<<" ","2","0","2","4","-","0","1","-","3","1">>) }

ArgumentInputs ==
    { NonObject(k) : k \in {"undefined", "null", "string", "number", "array"} }
    \cup { Args("object", n, tab, s, e, x) :
             n \in NameInputs, tab \in TabInputs, s \in StartDateInputs,
             e \in EndDateInputs, x \in {Undefined, JSString(<<"x">>)} }

ValidateCalls ==
    { [fn |-> "validateArgs", done |-> FALSE, tool |-> i, args |-> a, out |-> NoCall] :
        i \in 1..Len(timeFilterTools), a \in ArgumentInputs }

AlternateCase(s) ==
    [i \in 1..Len(s) |-> IF i % 2 = 1 THEN toUpperCase(<<s[i]>>)[1]
                         ELSE toLowerCase(<<s[i]>>)[1]]

\* a catalog name in several letter cases
LetterCases(name) ==
    { name, toLowerCase(name), toUpperCase(name), AlternateCase(name) }

PeriodNameInputs ==
    UNION { LetterCases(PeriodNames[i]) : i \in 1..Len(PeriodNames) }
    \cup { <<"N","e","x","t"," ","D","e","c","a","d","e">>, <<"l","a","s","t">>, <<"S","e","t"," ","L","a","s","t"," ","M","o","n","t","h"," ","p","l","e","a","s","e">>, <<>> }

ToolCalls ==
    { [fn |-> "tool", done |-> FALSE, tool |-> 1,
       args |-> PeriodArgs(JSString(n), tab), out |-> NoCall] :
        n \in PeriodNameInputs,
        tab \in { JSString(<<"O","v","e","r","v","i","e","w">>), JSString(<<"C","u","s","t","o","m","e","r"," ","J","o","u","r","n","e","y">>),
                  JSString(<<"I","n","v","a","l","i","d","T","a","b">>), JSString(<<>>) } }

InitLibrary ==
    /\ apiKey = Undefined
    /\ clock = 0
    /\ suspended = NoHandler
    /\ last = NoResponse
    /\ call \in ErrorCalls \cup ValidateCalls \cup ToolCalls

Returns(value) ==
    /\ call' = [call EXCEPT !.done = TRUE, !.out = value]
    /\ UNCHANGED <<apiKey, clock, suspended, last>>

CallCreateMCPError ==
    /\ call.fn = "createMCPError"
    /\ ~call.done
    /\ Returns(createMCPError(call.code, call.message,
                              IF call.data = Undefined THEN Null ELSE call.data,
                              generateId(Now(clock))))

CallValidateArgs ==
    /\ call.fn = "validateArgs"
    /\ ~call.done
    /\ Returns(validateArgs(timeFilterTools[call.tool], call.args))

\* validation = tool.validateArgs(args); if it succeeds,
\* result = await tool.execute(validation.data)
CallTool ==
    /\ call.fn = "tool"
    /\ ~call.done
    /\ LET tool == timeFilterTools[call.tool]
           validation == validateArgs(tool, call.args)
       IN  Returns([validation |-> validation,
                    executed |-> validation.success,
                    result |-> IF validation.success
                               THEN execute(tool, validation.data, Now(clock))
                               ELSE Fulfilled([success |-> FALSE])])

NextLibrary == CallCreateMCPError \/ CallValidateArgs \/ CallTool

SpecLibrary == InitLibrary /\ [][NextLibrary]_vars

-----------------------------------------------------------------------------
(* C6: createMCPError gives each code name of the table its number and every
   other code name -32000; error.code is always an integer, and error.data is
   present only when data was supplied. *)
C6_ErrorCodeTable ==
    (call.fn = "createMCPError" /\ call.done) =>
        LET code == call.out.error.code
            i == IndexOf(ErrorCodeNames, call.code)
        IN  /\ code.t = "number"
            /\ i > 0 => code.n = ErrorCodeNumbers[i]
            /\ i = 0 => code.n = -32000
            /\ "data" \in DOMAIN call.out.error => call.data # Undefined

C9_Declared(tool, key) ==
    \E i \in 1..Len(tool.inputSchema.properties) :
        tool.inputSchema.properties[i].key = key

C9_Required(tool, key) ==
    \E i \in 1..Len(tool.inputSchema.required) : tool.inputSchema.required[i] = key

C9_Keys == { ArgKeys[i] : i \in 1..Len(ArgKeys) }

\* the cases in which validation has to fail
C9_MustFail(tool, args) ==
    \E key \in C9_Keys :
        \/ C9_Required(tool, key) /\ (args.kind # "object" \/ Prop(args, key).t = "undefined")
        \/ /\ C9_Declared(tool, key)
           /\ args.kind = "object"
           /\ \/ Prop(args, key).t \notin {"undefined", "string"}
              \/ key \in {"timePeriodName", "tabName"} /\ Prop(args, key) = JSString(<<>>)
              \/ /\ key \in {"startDate", "endDate"}
                 /\ Prop(args, key).t = "string"
                 /\ LET v == Prop(args, key).v
                    IN  ~( /\ Len(v) = 10
                           /\ v[5] = "-" /\ v[8] = "-"
                           /\ \A j \in {1, 2, 3, 4, 6, 7, 9, 10} :
                                 v[j] \in { Digits[d] : d \in 1..Len(Digits) } )

(* C9: a tool's validateArgs fails exactly when a required property is absent,
   a declared string property has a value that is not a string, timePeriodName
   or tabName is the empty string, or startDate or endDate does not match
   YYYY-MM-DD over the whole string; when it succeeds, every declared property
   of the data has the value it has in the raw arguments. *)
C9_ValidationFollowsSchema ==
    (call.fn = "validateArgs" /\ call.done) =>
        LET tool == timeFilterTools[call.tool]
        IN  /\ call.out.success = ~C9_MustFail(tool, call.args)
            /\ call.out.success =>
                  \A key \in C9_Keys :
                      C9_Declared(tool, key) =>
                          Prop(call.out.data, key) = Prop(call.args, key)

C9_Witness ==
    /\ call.fn = "validateArgs"
    /\ call.done
    /\ call.tool = 2
    /\ call.args.startDate = JSString(<<"2","0","2","4","-","0","1","-","0","1">> \o <<"\n">>)
    /\ call.args.endDate = JSString(<<"2","0","2","4","-","0","1","-","3","1">>)
    /\ call.args.tabName = JSString(<<"O","v","e","r","v","i","e","w">>)
    /\ ~call.out.success

\* set_time_period was called with the name of catalog entry i, in some letter
\* case, and a tab name
C10_NamesEntry(i) ==
    /\ call.fn = "tool"
    /\ call.done
    /\ call.tool = 1
    /\ toLowerCase(call.args.timePeriodName.v) = toLowerCase(PeriodNames[i])
    /\ call.args.tabName # JSString(<<>>)

(* C10: set_time_period called with a catalog entry's name in any letter case
   and any tab name gives a success outcome whose filterConfig has exactly
   that entry's name and scale: no earlier entry captures the name. *)
C10_CatalogNameResolves ==
    \A i \in 1..Len(PREDEFINED_PERIODS) :
        C10_NamesEntry(i) =>
            /\ call.out.executed
            /\ ~call.out.result.threw
            /\ call.out.result.value.success
            /\ call.out.result.value.filterConfig.periodName = PREDEFINED_PERIODS[i].name
            /\ call.out.result.value.filterConfig.periodScale = PREDEFINED_PERIODS[i].scale

C10_Witness ==
    /\ C10_NamesEntry(10)
    /\ call.args.timePeriodName.v = <<"l","a","s","t"," ","m","o","n","t","h">>
    /\ call.out.result.value.filterConfig.periodName = <<"L","a","s","t"," ","M","o","n","t","h">>

-----------------------------------------------------------------------------
(* The stand-alone server (src/server.js): the same three tools behind
   POST /mcp/tools/call, written out in one handler, without the auth gate and
   without the envelope builders. *)

\* z.string().min(1) and z.string().regex(...) without a message of their own
simple_setTimePeriodSchema == <<
    ZString("timePeriodName", "min1", "String must contain at least 1 character(s)"),
    ZString("tabName", "min1", "String must contain at least 1 character(s)") >>

simple_setCustomDateRangeSchema == <<
    ZString("startDate", "date", "Invalid"),
    ZString("endDate", "date", "Invalid"),
    ZString("tabName", "min1", "String must contain at least 1 character(s)") >>

\* res.status(status).json({ error })
simple_Error(status, message, steps) == Send(status, [error |-> message], steps)

\* res.json({ jsonrpc: "2.0", result: { content: [{ type: 'text', text }] } })
simple_Result(outcome, steps) ==
    Send(200, [jsonrpc |-> "2.0", result |-> ToolResult(outcome)], steps)

\* PREDEFINED_PERIODS.find(p => p.name.toLowerCase() === timePeriodName.toLowerCase())
simple_Find(timePeriodName) ==
    LET hits == {i \in 1..Len(PREDEFINED_PERIODS) :
                    toLowerCase(PREDEFINED_PERIODS[i].name) = toLowerCase(timePeriodName)}
    IN  IF hits = {} THEN 0 ELSE CHOOSE i \in hits : \A j \in hits : i <= j

simple_setTimePeriod(args) ==
    LET validation == ZParse(simple_setTimePeriodSchema, args)
    IN  IF validation.threw
        THEN simple_Error(400, ReasonMsg("%", validation.issues), <<"validate">>)
        ELSE
          LET timePeriodName == validation.value.timePeriodName.v
              tabName == validation.value.tabName.v
              period == simple_Find(timePeriodName)
          IN  IF period = 0
              THEN simple_Error(400, Msg("Invalid time period", <<>>),
                                <<"validate", "execute">>)
              ELSE simple_Result(
                     [success |-> TRUE,
                      message |-> Msg("Set % for % tab",
                                      <<PREDEFINED_PERIODS[period].name, tabName>>),
                      filterConfig |->
                          [periodScale |-> PREDEFINED_PERIODS[period].scale,
                           tabName |-> tabName,
                           periodName |-> PREDEFINED_PERIODS[period].name]],
                     <<"validate", "execute", "respond">>)

\* Date.prototype.toISOString throws a RangeError on an Invalid Date
InvalidTimeValue == <<"I","n","v","a","l","i","d"," ","t","i","m","e"," ","v","a","l","u","e">>

simple_setCustomDateRange(args) ==
    LET validation == ZParse(simple_setCustomDateRangeSchema, args)
    IN  IF validation.threw
        THEN simple_Error(400, ReasonMsg("%", validation.issues), <<"validate">>)
        ELSE
          LET startDate == validation.value.startDate.v
              endDate == validation.value.endDate.v
              tabName == validation.value.tabName.v
              start == DateParse(startDate)
              end == DateParse(endDate)
          IN  IF After(start, end)
              THEN simple_Error(400, Msg("Start date cannot be after end date", <<>>),
                                <<"validate", "execute">>)
              ELSE IF isNaN(start) \/ isNaN(end)
              THEN Throw(InvalidTimeValue, <<"validate", "execute">>)
              ELSE simple_Result(
                     [success |-> TRUE,
                      message |-> Msg("Set custom range % to % for % tab",
                                      <<startDate, endDate, tabName>>),
                      filterConfig |->
                          [periodScale |-> 100,
                           startDate |-> toISOString(start),
                           endDate |-> toISOString(end),
                           tabName |-> tabName]],
                     <<"validate", "execute", "respond">>)

simple_IsCalendar(p) ==
    /\ ~p.isCustom
    /\ \/ includes(p.name, <<"T","h","i","s">>)
       \/ /\ includes(p.name, <<"L","a","s","t">>)
          /\ ~includes(p.name, <<"d","a","y","s">>)
          /\ ~includes(p.name, <<"h","o","u","r","s">>)

simple_calendarPeriods == SelectSeq(PREDEFINED_PERIODS, simple_IsCalendar)

\* !p.isCustom && !calendarPeriods.includes(p)
simple_IsRolling(p) ==
    /\ ~p.isCustom
    /\ \A i \in 1..Len(simple_calendarPeriods) : simple_calendarPeriods[i] # p

simple_rollingPeriods == SelectSeq(PREDEFINED_PERIODS, simple_IsRolling)

simple_Names(periods) == join([i \in 1..Len(periods) |-> periods[i].name], <<","," ">>)

simple_listTimePeriods ==
    simple_Result(
      [success |-> TRUE,
       message |-> Msg("Available Time Periods: Calendar: % Rolling: %",
                       <<simple_Names(simple_calendarPeriods),
                         simple_Names(simple_rollingPeriods)>>),
       data |-> [calendarPeriods |-> simple_calendarPeriods,
                 rollingPeriods |-> simple_rollingPeriods,
                 totalCount |-> Len(PREDEFINED_PERIODS) - 1]],
      <<"execute", "respond">>)

\* the tools array of the stand-alone server
simple_tools == <<
    [name |-> "set_time_period",
     description |-> "Set a predefined time period for dashboard tabs",
     inputSchema |-> setTimePeriodTool.inputSchema],
    [name |-> "set_custom_date_range",
     description |-> "Set a custom date range for dashboard tabs",
     inputSchema |-> setCustomDateRangeTool.inputSchema],
    [name |-> "list_time_periods",
     description |-> "List all available time periods",
     inputSchema |-> listTimePeriodsTools.inputSchema] >>

\* app.get('/mcp/tools')
simple_toolsListHandler(req) ==
    Send(200, [jsonrpc |-> "2.0", result |-> [tools |-> simple_tools]], <<"list">>)

\* app.post('/mcp/tools/call'): the try block
simple_toolsCallTry(req) ==
    IF req.name = JSName("set_time_period") THEN simple_setTimePeriod(req.arguments)
    ELSE IF req.name = JSName("set_custom_date_range")
    THEN simple_setCustomDateRange(req.arguments)
    ELSE IF req.name = JSName("list_time_periods") THEN simple_listTimePeriods
    ELSE simple_Error(404, Msg("Tool not found", <<>>), <<>>)

\* app.post('/mcp/tools/call'): the catch block
simple_toolsCallCatch(outcome) ==
    IF outcome.kind = "throw"
    THEN Caught(500, [error |-> Msg("%", <<outcome.fault>>)],
                Append(outcome.steps, "respond"), outcome.fault)
    ELSE outcome

simple_toolsCallHandler(req) == simple_toolsCallCatch(simple_toolsCallTry(req))

simple_Route(req) ==
    IF req.ep = "GET /mcp/tools" THEN simple_toolsListHandler(req)
    ELSE simple_toolsCallHandler(req)

\* the requests sent to the stand-alone server
simple_Requests ==
    { ToolsCallRequest(Undefined, n, a) : n \in Names, a \in Arguments }
    \cup { ToolsCallRequest(Undefined, JSName("set_time_period"),
                             PeriodArgs(JSString(n), JSString(<<"O","v","e","r","v","i","e","w">>))) :
              n \in PeriodNameInputs }
    \cup { ToolsListRequest(Undefined) }

InitSimple ==
    /\ apiKey = Undefined
    /\ clock = 0
    /\ suspended = NoHandler
    /\ last = NoResponse
    /\ call = NoCall

\* a request arrives at the stand-alone server: its handler has no await that
\* waits, so it runs to its response
simple_Receive ==
    /\ \E req \in simple_Requests : last' = Response(req, simple_Route(req))
    /\ UNCHANGED <<apiKey, clock, suspended, call>>

NextSimple == simple_Receive

SpecSimple == InitSimple /\ [][NextSimple]_vars

-----------------------------------------------------------------------------
\* entry i of the catalog matches the input: one lower-cased name contains the
\* other
C11_Matches(i, input) ==
    \/ includes(toLowerCase(PeriodNames[i]), toLowerCase(input))
    \/ includes(toLowerCase(input), toLowerCase(PeriodNames[i]))

\* the outcome names the first matching entry, or fails with the catalog names
C11_Resolves(input, outcome) ==
    IF \E i \in 1..Len(PeriodNames) : C11_Matches(i, input)
    THEN /\ outcome.success
         /\ \E i \in 1..Len(PeriodNames) :
               /\ C11_Matches(i, input)
               /\ \A j \in 1..(i - 1) : ~C11_Matches(j, input)
               /\ outcome.filterConfig.periodName = PeriodNames[i]
    ELSE /\ ~outcome.success
         /\ "availablePeriods" \in DOMAIN outcome
         /\ outcome.availablePeriods = PeriodNames

\* set_time_period was called over HTTP with a non-empty name and tab name
C11_Called ==
    /\ last.sent
    /\ last.req.ep = "POST /mcp/tools/call"
    /\ Admitted(last.req)
    /\ last.req.name = JSName("set_time_period")
    /\ last.req.arguments.kind = "object"
    /\ last.req.arguments.timePeriodName.t = "string"
    /\ last.req.arguments.timePeriodName.v # <<>>
    /\ last.req.arguments.tabName.t = "string"
    /\ last.req.arguments.tabName.v # <<>>

(* C11: set_time_period selects the first catalog entry, in declared order,
   whose lower-cased name contains the lower-cased input or is contained in
   it, and never a later entry when an earlier one matches; when no entry
   matches the outcome has success false and lists all catalog names in
   catalog order. Stated of the tool called directly and of the tool called
   over HTTP. *)
C11_FirstMatchInOrder ==
    /\ (call.fn = "tool" /\ call.done /\ call.tool = 1 /\ call.out.executed) =>
          C11_Resolves(call.args.timePeriodName.v, call.out.result.value)
    /\ C11_Called =>
          /\ IsResult(last.body)
          /\ C11_Resolves(last.req.arguments.timePeriodName.v,
                          last.body.result.content[1].text.json)

-----------------------------------------------------------------------------
\* set_custom_date_range was called with schema-valid arguments and answered
C12_Called ==
    /\ Answered
    /\ last.req.name = JSName("set_custom_date_range")
    /\ ~Rejects(2, last.req.arguments)

\* what the call has to return when it is executed at time t
C12_Succeeds(t) ==
    LET start == DateParse(last.req.arguments.startDate.v)
        end == DateParse(last.req.arguments.endDate.v)
    IN  /\ ~start.nan
        /\ ~end.nan
        /\ start.time <= end.time
        /\ end.time <= t.time

(* C12: for schema-valid arguments set_custom_date_range returns a success
   outcome exactly when both dates parse, start is not after end and end is
   not after the execution time; otherwise the outcome has success false
   (start after end: "Start date cannot be after end date"), still inside a
   success envelope. On success filterConfig has periodScale 100 and isCustom
   true. *)
C12_CustomRangeOutcome ==
    C12_Called =>
        /\ IsResult(last.body)
        /\ ~IsError(last.body)
        /\ LET outcome == last.body.result.content[1].text.json
               start == DateParse(last.req.arguments.startDate.v)
               end == DateParse(last.req.arguments.endDate.v)
           IN  /\ \E c \in 0..clock :
                     /\ outcome.success = C12_Succeeds(Now(c))
                     /\ outcome.success =>
                           outcome.filterConfig.timestamp = toISOString(Now(c))
               /\ outcome.success =>
                     /\ outcome.filterConfig.periodScale = 100
                     /\ outcome.filterConfig.isCustom
               /\ (~start.nan /\ ~end.nan /\ start.time > end.time) =>
                     outcome.message.text = "Start date cannot be after end date"

C12_Witness ==
    /\ C12_Called
    /\ IsResult(last.body)
    /\ ~last.body.result.content[1].text.json.success
    /\ last.body.result.content[1].text.json.message.text
         = "Start date cannot be after end date"

-----------------------------------------------------------------------------
\* list_time_periods was called over HTTP and answered with an outcome
C13_Listed ==
    /\ last.sent
    /\ Admitted(last.req)
    /\ IsToolCall(last.req)
    /\ last.req.name = JSName("list_time_periods")
    /\ IsResult(last.body)

(* C13: the outcome of list_time_periods has data.totalCount equal to the
   number of catalog entries minus the one custom entry, which is the number
   of calendar periods plus the number of rolling periods. *)
C13_TotalCountExcludesCustom ==
    C13_Listed =>
        LET data == last.body.result.content[1].text.json.data
        IN  /\ data.totalCount = Len(PREDEFINED_PERIODS) - 1
            /\ data.totalCount = Len(data.calendarPeriods) + Len(data.rollingPeriods)

\* the documented group of each period: README, Supported Time Periods
C14_DocumentedCalendar ==
    { <<"A","l","l"," ","T","i","m","e">>, <<"T","o","d","a","y">>, <<"Y","e","s","t","e","r","d","a","y">>, <<"T","h","i","s"," ","W","e","e","k">>, <<"L","a","s","t"," ","W","e","e","k">>,
      <<"T","h","i","s"," ","M","o","n","t","h">>, <<"L","a","s","t"," ","M","o","n","t","h">>, <<"T","h","i","s"," ","Q","u","a","r","t","e","r">>, <<"L","a","s","t"," ","Q","u","a","r","t","e","r">>,
      <<"T","h","i","s"," ","Y","e","a","r">>, <<"L","a","s","t"," ","Y","e","a","r">> }

C14_DocumentedRolling ==
    { <<"L","a","s","t"," ","2","4"," ","h","o","u","r","s">>, <<"L","a","s","t"," ","7"," ","d","a","y","s">>, <<"L","a","s","t"," ","1","4"," ","d","a","y","s">>, <<"L","a","s","t"," ","3","0"," ","d","a","y","s">>,
      <<"L","a","s","t"," ","9","0"," ","d","a","y","s">>, <<"L","a","s","t"," ","1","8","0"," ","d","a","y","s">>, <<"L","a","s","t"," ","1","2"," ","M","o","n","t","h","s">> }

C14_NamesOf(periods) == { periods[i].name : i \in 1..Len(periods) }

(* C14: list_time_periods reports as calendar periods exactly All Time, Today,
   Yesterday, This/Last Week, This/Last Month, This/Last Quarter and This/Last
   Year, and as rolling periods exactly Last 24 hours, Last 7/14/30/90/180
   days and Last 12 Months, as the README documents. *)
C14_GroupsAsDocumented ==
    C13_Listed =>
        LET data == last.body.result.content[1].text.json.data
        IN  /\ C14_NamesOf(data.calendarPeriods) = C14_DocumentedCalendar
            /\ C14_NamesOf(data.rollingPeriods) = C14_DocumentedRolling

-----------------------------------------------------------------------------
(* A tool called twice with the same arguments, as src/src/test.js calls a
   tool (validateArgs, then execute on the validated data), with time passing
   before, between and after the two calls. *)

RepeatCalls ==
    { [fn |-> "repeat", stage |-> 0, tool |-> i, args |-> a,
       t1 |-> 0, first |-> NoCall, t2 |-> 0, second |-> NoCall] :
        i \in 1..Len(timeFilterTools), a \in Arguments }

InitRepeat ==
    /\ apiKey = Undefined
    /\ clock = 0
    /\ suspended = NoHandler
    /\ last = NoResponse
    /\ call \in RepeatCalls

\* validation = tool.validateArgs(args); result = await tool.execute(validation.data)
CallOutcome(tool, args, t) ==
    LET validation == validateArgs(tool, args)
    IN  [validation |-> validation,
         executed |-> validation.success,
         result |-> IF validation.success THEN execute(tool, validation.data, t)
                    ELSE Fulfilled([success |-> FALSE])]

RepeatFirst ==
    /\ call.fn = "repeat"
    /\ call.stage = 0
    /\ call' = [call EXCEPT !.stage = 1, !.t1 = clock,
                            !.first = CallOutcome(timeFilterTools[call.tool],
                                                  call.args, Now(clock))]
    /\ UNCHANGED <<apiKey, clock, suspended, last>>

RepeatSecond ==
    /\ call.fn = "repeat"
    /\ call.stage = 1
    /\ call' = [call EXCEPT !.stage = 2, !.t2 = clock,
                            !.second = CallOutcome(timeFilterTools[call.tool],
                                                   call.args, Now(clock))]
    /\ UNCHANGED <<apiKey, clock, suspended, last>>

NextRepeat == RepeatFirst \/ RepeatSecond \/ Tick

SpecRepeat == InitRepeat /\ [][NextRepeat]_vars

-----------------------------------------------------------------------------
\* a filter configuration without its embedded timestamps: timestamp, and the
\* placeholder dates of set_time_period's custom period, which are the time of
\* the call
C15_Config(fc, tool) ==
    IF "startDate" \in DOMAIN fc /\ ~(tool = 1 /\ fc.isCustom)
    THEN [periodScale |-> fc.periodScale, tabName |-> fc.tabName,
          periodName |-> fc.periodName, isCustom |-> fc.isCustom,
          startDate |-> fc.startDate, endDate |-> fc.endDate]
    ELSE [periodScale |-> fc.periodScale, tabName |-> fc.tabName,
          periodName |-> fc.periodName, isCustom |-> fc.isCustom]

\* what a call returned, without the embedded timestamps
C15_Timeless(out, tool) ==
    [validation |-> out.validation, executed |-> out.executed,
     threw |-> out.result.threw, fault |-> out.result.fault,
     outcome |-> IF "filterConfig" \in DOMAIN out.result.value
                 THEN [success |-> out.result.value.success,
                       message |-> out.result.value.message,
                       filterConfig |-> C15_Config(out.result.value.filterConfig, tool),
                       action |-> [type |-> out.result.value.action.type,
                                   target |-> out.result.value.action.target,
                                   data |-> C15_Config(out.result.value.action.data, tool)]]
                 ELSE out.result.value]

\* the end date of a set_custom_date_range call is after one of the two
\* execution times and not after the other
C15_EndBetweenCalls ==
    /\ call.tool = 2
    /\ call.args.kind = "object"
    /\ call.args.endDate.t = "string"
    /\ After(DateParse(call.args.endDate.v), Now(call.t1))
         # After(DateParse(call.args.endDate.v), Now(call.t2))

-----------------------------------------------------------------------------
(* The auth gate with several configured keys and header values *)

\* values of MCP_API_KEY: a plain key, and keys that begin like a header form
AuthKeys == { Key1, <<"K","e","y"," ","k","1">>, <<"B","e","a","r","e","r"," ","k","1">> }

AuthHeaders ==
    { Undefined, JSString(<<>>), JSString(<<"k","2">>), JSString(<<"B","e","a","r","e","r"," ","k","2">>),
      JSString(<<"b","e","a","r","e","r"," ","k","1">>), JSString(<<"T","o","k","e","n"," ","k","1">>), JSString(<<"B","e","a","r","e","r"," ","k","1"," ">>) }
    \cup UNION { { JSString(<<"B","e","a","r","e","r"," ">> \o k), JSString(<<"A","p","i","K","e","y"," ">> \o k),
                   JSString(<<"K","e","y"," ">> \o k), JSString(k) } : k \in AuthKeys }

AuthRequests ==
    UNION { { ToolsListRequest(h),
              ToolsCallRequest(h, JSName("list_time_periods"), EmptyObject),
              McpRequestNoParams(h, "tools/list"),
              McpRequest(h, "tools/call", JSName("set_time_period"),
                         PeriodArgs(JSString(<<"L","a","s","t"," ","M","o","n","t","h">>), JSString(<<"O","v","e","r","v","i","e","w">>))) } :
            h \in AuthHeaders }

InitAuth ==
    /\ apiKey \in { Undefined } \cup { JSString(k) : k \in AuthKeys }
    /\ clock = 0
    /\ suspended = NoHandler
    /\ last = NoResponse
    /\ call = NoCall

\* a request arrives with one of the header values
ReceiveAuth ==
    /\ suspended = NoHandler
    /\ \E req \in AuthRequests :
        LET reply == Route(apiKey, req, Now(clock))
        IN  IF reply.kind = "await"
            THEN /\ suspended' = [kind |-> "await", req |-> req,
                                  promise |-> reply.promise, steps |-> reply.steps]
                 /\ UNCHANGED last
            ELSE /\ last' = Response(req, reply)
                 /\ UNCHANGED suspended
    /\ UNCHANGED <<apiKey, clock, call>>

NextAuth == ReceiveAuth \/ Resume

SpecAuth == InitAuth /\ [][NextAuth]_vars

-----------------------------------------------------------------------------
\* the header values that carry the key K
C16_Carries(K) ==
    { JSString(<<"B","e","a","r","e","r"," ">> \o K), JSString(<<"A","p","i","K","e","y"," ">> \o K),
      JSString(<<"K","e","y"," ">> \o K), JSString(K) }

(* C16: with an API key K configured, a request to the listing, tool-call or
   protocol endpoint is admitted exactly when its Authorization header is
   "Bearer K", "ApiKey K", "Key K" or K itself, for every key K; any other
   request is rejected with code -32001 and no tool is looked up, validated
   or executed. With no key configured every request is admitted. *)
C16_AdmittedExactlyWithKey ==
    last.sent =>
        IF Falsy(apiKey) THEN last.status # 401
        ELSE /\ (last.status # 401) <=> (last.req.authorization \in C16_Carries(apiKey.v))
             /\ last.status = 401 =>
                   /\ IsError(last.body)
                   /\ ErrorCode(last.body) = -32001
                   /\ ~Ran("lookup") /\ ~Ran("list")
                   /\ ~Ran("validate") /\ ~Ran("execute")

-----------------------------------------------------------------------------
\* a listing request was admitted and answered
C17_Listed ==
    /\ last.sent
    /\ Admitted(last.req)
    /\ \/ last.req.ep = "GET /mcp/tools"
       \/ last.req.ep = "POST /mcp" /\ last.req.method = "tools/list"

(* C17: the tool listing (GET /mcp/tools and POST /mcp with method tools/list)
   returns result.tools as the registered tools in registration order
   (set_time_period, set_custom_date_range, list_time_periods), each reduced
   to {name, description, inputSchema}, with pairwise distinct names, in every
   state the server can reach, whatever tool calls came before. *)
C17_ListingInRegistrationOrder ==
    C17_Listed =>
        /\ IsResult(last.body)
        /\ ~IsError(last.body)
        /\ LET tools == last.body.result.tools
           IN  /\ Len(tools) = 3
               /\ [i \in 1..3 |-> tools[i].name]
                    = <<"set_time_period", "set_custom_date_range", "list_time_periods">>
               /\ \A i \in 1..3 :
                     /\ DOMAIN tools[i] = {"name", "description", "inputSchema"}
                     /\ tools[i].description = timeFilterTools[i].description
                     /\ tools[i].inputSchema = timeFilterTools[i].inputSchema
               /\ \A i, j \in 1..3 : tools[i].name = tools[j].name => i = j

C17_Witness ==
    /\ C17_Listed
    /\ last.req.ep = "POST /mcp"
    /\ apiKey # Undefined
    /\ clock > 0
    /\ Len(last.body.result.tools) = 3

-----------------------------------------------------------------------------
(* validateMCPRequest called directly (src/src/utils/mcp-protocol.js) *)

\* a request object: its jsonrpc, method, result and error properties,
\* undefined when the object does not have them
MCPRequest(jsonrpc, method, result, error) ==
    [t |-> "object", jsonrpc |-> jsonrpc, method |-> method, result |-> result,
     error |-> error]

validateMCPRequest(request) ==
    IF Falsy(request)
    THEN [valid |-> FALSE, error |-> "Request is required"]
    ELSE IF ~Falsy(request.jsonrpc) /\ request.jsonrpc # JSString(<<"2",".","0">>)
    THEN [valid |-> FALSE, error |-> "Invalid JSON-RPC version. Must be '2.0'"]
    ELSE IF Falsy(request.method) /\ Falsy(request.result) /\ Falsy(request.error)
    THEN [valid |-> FALSE, error |-> "Request must have method, result, or error"]
    ELSE [valid |-> TRUE]

EnvelopeCalls ==
    { [fn |-> "validateMCPRequest", done |-> FALSE, request |-> r, out |-> NoCall] :
        r \in { Undefined, Null }
              \cup { MCPRequest(j, m, v, e) :
                       j \in { Undefined, JSString(<<"2",".","0">>), JSString(<<"1",".","0">>),
                               JSString(<<>>), JSNumber(0), JSNumber(2), Null },
                       m \in { Undefined, JSString(<<"t","o","o","l","s","/","l","i","s","t">>), JSString(<<>>) },
                       v \in { Undefined, JSOther("object"), Null, JSNumber(0),
                               JSString(<<>>), JSBoolean(FALSE), JSBoolean(TRUE) },
                       e \in { Undefined, JSOther("object"), Null } } }

InitEnvelope ==
    /\ apiKey = Undefined
    /\ clock = 0
    /\ suspended = NoHandler
    /\ last = NoResponse
    /\ call \in EnvelopeCalls

CallValidateMCPRequest ==
    /\ call.fn = "validateMCPRequest"
    /\ ~call.done
    /\ Returns(validateMCPRequest(call.request))

NextEnvelope == CallValidateMCPRequest

SpecEnvelope == InitEnvelope /\ [][NextEnvelope]_vars

-----------------------------------------------------------------------------
\* the request is an object that has the property
C19_Has(value) == value.t # "undefined"

(* C19: validateMCPRequest returns valid false exactly when the request is
   absent, or it has a jsonrpc property with a value other than "2.0", or it
   has none of method, result and error; in every other case, a request
   without jsonrpc and a request whose result or error has any value
   included, it returns valid true. *)
C19_ValidExactly ==
    (call.fn = "validateMCPRequest" /\ call.done) =>
        LET request == call.request
        IN  call.out.valid
              = ~( \/ request.t \in {"undefined", "null"}
                   \/ C19_Has(request.jsonrpc) /\ request.jsonrpc # JSString(<<"2",".","0">>)
                   \/ /\ ~C19_Has(request.method)
                      /\ ~C19_Has(request.result)
                      /\ ~C19_Has(request.error) )

-----------------------------------------------------------------------------
\* the positions in the catalog of the periods of a group, in the group's order
C20_Positions(periods) ==
    [i \in 1..Len(periods) |-> IndexOf(PeriodNames, periods[i].name)]

\* the group's periods are catalog entries, in catalog order
C20_InCatalogOrder(periods) ==
    /\ \A i \in 1..Len(periods) : C20_Positions(periods)[i] > 0
    /\ \A i, j \in 1..Len(periods) :
          i < j => C20_Positions(periods)[i] < C20_Positions(periods)[j]

C20_IsCalendarName(name) ==
    \/ includes(name, <<"T","h","i","s">>)
    \/ includes(name, <<"L","a","s","t">>) /\ ~includes(name, <<"d","a","y","s">>) /\ ~includes(name, <<"h","o","u","r","s">>)

(* C20: list_time_periods partitions the catalog: all three groups
   (calendarPeriods, rollingPeriods, customPeriods) are returned, every
   catalog entry is in exactly one of them, in catalog order within its group;
   an entry is calendar iff it is not custom and its name contains "This", or
   "Last" without "days" or "hours"; the custom group holds exactly the one
   entry flagged custom. *)
C20_GroupsPartitionCatalog ==
    C13_Listed =>
        LET data == last.body.result.content[1].text.json.data
        IN  /\ {"calendarPeriods", "rollingPeriods", "customPeriods"} \subseteq DOMAIN data
            /\ C20_InCatalogOrder(data.calendarPeriods)
            /\ C20_InCatalogOrder(data.rollingPeriods)
            /\ C20_InCatalogOrder(data.customPeriods)
            /\ \A i \in 1..Len(PREDEFINED_PERIODS) :
                  LET p == PREDEFINED_PERIODS[i]
                      inCalendar == p.name \in C14_NamesOf(data.calendarPeriods)
                      inRolling == p.name \in C14_NamesOf(data.rollingPeriods)
                      inCustom == p.name \in C14_NamesOf(data.customPeriods)
                  IN  /\ inCalendar \/ inRolling \/ inCustom
                      /\ ~(inCalendar /\ inRolling)
                      /\ ~(inCalendar /\ inCustom)
                      /\ ~(inRolling /\ inCustom)
                      /\ inCalendar = (~p.isCustom /\ C20_IsCalendarName(p.name))
                      /\ inCustom = p.isCustom
            /\ Len(data.customPeriods) = 1

-----------------------------------------------------------------------------
(* One tool call sent to both entry points: POST /mcp/tools/call with body
   { name, arguments }, then POST /mcp with method tools/call and params
   { name, arguments }, with the same credential, name and arguments. *)

TwinCalls ==
    { [fn |-> "twin", stage |-> 0, authorization |-> h, name |-> n, arguments |-> a,
       t1 |-> 0, direct |-> NoResponse, t2 |-> 0, protocol |-> NoResponse] :
        h \in {Undefined, GoodHeader}, n \in Names, a \in Arguments }

InitTwin ==
    /\ apiKey \in { Undefined, JSString(Key1) }
    /\ clock = 0
    /\ suspended = NoHandler
    /\ last = NoResponse
    /\ call \in TwinCalls

\* the request of the stage: the tool-call endpoint first, the protocol
\* endpoint second
TwinRequest(c) ==
    IF c.stage = 0
    THEN ToolsCallRequest(c.authorization, c.name, c.arguments)
    ELSE McpRequest(c.authorization, "tools/call", c.name, c.arguments)

\* the time at which the request of the stage is taken up
TwinTaken(c, t) ==
    IF c.stage = 0 THEN [c EXCEPT !.t1 = t] ELSE [c EXCEPT !.t2 = t]

TwinRecord(c, response) ==
    IF c.stage = 0 THEN [c EXCEPT !.stage = 1, !.direct = response]
    ELSE [c EXCEPT !.stage = 2, !.protocol = response]

\* the request of the stage arrives: the auth gate and the handler run until
\* the response is sent or the handler suspends
TwinReceive ==
    /\ call.fn = "twin"
    /\ call.stage \in {0, 1}
    /\ suspended = NoHandler
    /\ LET req == TwinRequest(call)
           reply == Route(apiKey, req, Now(clock))
       IN  IF reply.kind = "await"
           THEN /\ suspended' = [kind |-> "await", req |-> req,
                                 promise |-> reply.promise, steps |-> reply.steps]
                /\ call' = TwinTaken(call, clock)
                /\ UNCHANGED last
           ELSE /\ last' = Response(req, reply)
                /\ call' = TwinRecord(TwinTaken(call, clock), Response(req, reply))
                /\ UNCHANGED suspended
    /\ UNCHANGED <<apiKey, clock>>

\* the suspended handler resumes and sends its response
TwinResume ==
    /\ call.fn = "twin"
    /\ suspended # NoHandler
    /\ last' = Response(suspended.req, Continue(suspended, Now(clock)))
    /\ call' = TwinRecord(call, Response(suspended.req, Continue(suspended, Now(clock))))
    /\ suspended' = NoHandler
    /\ UNCHANGED <<apiKey, clock>>

NextTwin == TwinReceive \/ TwinResume \/ Tick

SpecTwin == InitTwin /\ [][NextTwin]_vars

-----------------------------------------------------------------------------
\* the outcome a success envelope wraps, without its embedded timestamps
C21_Outcome(body, name) ==
    LET value == body.result.content[1].text.json
    IN  IF "filterConfig" \in DOMAIN value
        THEN [success |-> value.success, message |-> value.message,
              filterConfig |-> C15_Config(value.filterConfig, find(name)),
              action |-> [type |-> value.action.type, target |-> value.action.target,
                          data |-> C15_Config(value.action.data, find(name))]]
        ELSE value

\* what C21 compares of a response
C21_Summary(response, name) ==
    [sent |-> response.sent,
     status |-> IF response.sent THEN response.status ELSE 0,
     kind |-> IF ~response.sent THEN "none"
              ELSE IF IsResult(response.body) THEN "result" ELSE "error",
     code |-> IF response.sent /\ IsError(response.body)
              THEN ErrorCode(response.body) ELSE 0,
     outcome |-> IF response.sent /\ IsResult(response.body)
                 THEN C21_Outcome(response.body, name) ELSE << >>]

\* the end date of a set_custom_date_range call is after the time one of the
\* two requests is taken up and not after the other
C21_EndBetweenRequests ==
    /\ call.name = JSName("set_custom_date_range")
    /\ call.arguments.kind = "object"
    /\ call.arguments.endDate.t = "string"
    /\ After(DateParse(call.arguments.endDate.v), Now(call.t1))
         # After(DateParse(call.arguments.endDate.v), Now(call.t2))

(* C21: for every name and arguments value, POST /mcp/tools/call and POST /mcp
   with method tools/call return the same kind of envelope, the same error
   code, the same HTTP status and, on success, the same outcome up to
   timestamps; the two requests are compared when no end date passes between
   them. *)
C21_EntryPointsEquivalent ==
    (call.fn = "twin" /\ call.stage = 2 /\ ~C21_EndBetweenRequests) =>
        C21_Summary(call.direct, call.name) = C21_Summary(call.protocol, call.name)

-----------------------------------------------------------------------------
\* a response to a request sent to one of the two tool-call entry points
C22_ToolCallResponse ==
    last.sent /\ last.req.ep \in {"POST /mcp/tools/call", "POST /mcp"}

\* the status the envelope determines, 0 when it determines none
C22_StatusOf(body) ==
    IF IsResult(body) /\ ~IsError(body) THEN 200
    ELSE IF ~IsError(body) THEN 0
    ELSE CASE ErrorCode(body) \in {-32600, -32602} -> 400
           [] ErrorCode(body) = -32601 -> 404
           [] ErrorCode(body) = -32603 -> 500
           [] ErrorCode(body) = -32001 -> 401
           [] OTHER -> 0

(* C22: the HTTP status of a tool-call response is determined by its envelope:
   200 for a success envelope, 400 for INVALID_REQUEST and INVALID_PARAMS, 404
   for METHOD_NOT_FOUND, 500 for INTERNAL_ERROR and 401 for UNAUTHORIZED; no
   error envelope has status 200 and no success envelope another status. *)
C22_StatusFollowsEnvelope ==
    C22_ToolCallResponse =>
        /\ last.status = C22_StatusOf(last.body)
        /\ IsError(last.body) => last.status # 200
        /\ IsResult(last.body) => last.status = 200

\* a success envelope wrapping an outcome with success false, sent with 200
C22_Witness ==
    /\ C22_ToolCallResponse
    /\ IsResult(last.body)
    /\ "content" \in DOMAIN last.body.result
    /\ ~last.body.result.content[1].text.json.success
    /\ last.status = 200

-----------------------------------------------------------------------------
(* The server with a count of the requests taken up at the two POST entry
   points and of the responses sent to them. The continuation of a suspended
   handler is a microtask, which Node always runs: the specification is
   weakly fair to it. *)

MaxRequests == 2

LiveRequests ==
    { req \in Requests :
        /\ req.ep # "GET /mcp/tools"
        /\ req.arguments \in
             { NonObject("undefined"), EmptyObject,
               PeriodArgs(JSString(<<"L","a","s","t"," ","M","o","n","t","h">>), JSString(<<"O","v","e","r","v","i","e","w">>)),
               PeriodArgs(JSString(<<"N","e","x","t"," ","D","e","c","a","d","e">>), JSString(<<"O","v","e","r","v","i","e","w">>)),
               RangeArgs(<<"2","0","2","4","-","0","2","-","0","1">>, <<"2","0","2","4","-","0","1","-","0","1">>, <<"O","v","e","r","v","i","e","w">>),
               RangeArgs(<<"2","0","2","4","-","0","6","-","0","1">>, <<"2","0","2","4","-","0","6","-","1","6">>, <<"O","v","e","r","v","i","e","w">>) } }

\* res.json(...) is reached once by a reply that sends and not at all by a
\* fault that leaves the handler
Sends(reply) == IF reply.kind = "send" THEN 1 ELSE 0

InitLive ==
    /\ apiKey \in { Undefined, JSString(Key1) }
    /\ clock = 0
    /\ suspended = NoHandler
    /\ last = NoResponse
    /\ call = [fn |-> "requests", received |-> 0, sent |-> 0]

\* a request arrives: the auth gate and the handler run until the response is
\* sent or the handler suspends
LiveReceive ==
    /\ suspended = NoHandler
    /\ call.received < MaxRequests
    /\ \E req \in LiveRequests :
        LET reply == Route(apiKey, req, Now(clock))
        IN  IF reply.kind = "await"
            THEN /\ suspended' = [kind |-> "await", req |-> req,
                                  promise |-> reply.promise, steps |-> reply.steps]
                 /\ call' = [call EXCEPT !.received = @ + 1]
                 /\ UNCHANGED last
            ELSE /\ last' = Response(req, reply)
                 /\ call' = [call EXCEPT !.received = @ + 1, !.sent = @ + Sends(reply)]
                 /\ UNCHANGED suspended
    /\ UNCHANGED <<apiKey, clock>>

\* the suspended handler resumes and sends its response
LiveResume ==
    /\ suspended # NoHandler
    /\ last' = Response(suspended.req, Continue(suspended, Now(clock)))
    /\ call' = [call EXCEPT !.sent = @ + Sends(Continue(suspended, Now(clock)))]
    /\ suspended' = NoHandler
    /\ UNCHANGED <<apiKey, clock>>

NextLive == LiveReceive \/ LiveResume \/ Tick

SpecLive == InitLive /\ [][NextLive]_vars /\ WF_vars(LiveResume)

-----------------------------------------------------------------------------
\* the steps of the pipeline, in the order the specification gives them
C23_Pipeline == <<"auth", "lookup", "validate", "execute", "respond">>

C23_Rank(step) == IndexOf(C23_Pipeline, step)

\* every step is a step of the pipeline, and each comes later in the pipeline
\* than the one before it: none is out of order and none is repeated
C23_InOrder(steps) ==
    /\ \A i \in 1..Len(steps) : C23_Rank(steps[i]) > 0
    /\ \A i \in 1..(Len(steps) - 1) : C23_Rank(steps[i]) < C23_Rank(steps[i + 1])

\* a request has been taken up and its response has not been sent
C23_Pending == call.received > call.sent

\* every request taken up so far has one response, except the one in the
\* suspended handler, which has none yet
C23_OneResponseEach ==
    call.received = call.sent + (IF suspended # NoHandler THEN 1 ELSE 0)

\* the steps taken for the request in the suspended handler and for the last
\* tool call answered
C23_StepsInOrder ==
    /\ suspended # NoHandler => C23_InOrder(suspended.steps)
    /\ (last.sent /\ IsToolCall(last.req)) => C23_InOrder(last.steps)

(* C23: every request to POST /mcp/tools/call or POST /mcp eventually receives
   exactly one response: at any time each request taken up has one response
   or is in the suspended handler, whose response is eventually sent, and the
   steps run for a request are in the order auth, lookup, validation,
   execution, response, with no step run twice. *)
C23_AnsweredOnceInOrder ==
    /\ [](C23_OneResponseEach /\ C23_StepsInOrder)
    /\ C23_Pending ~> ~C23_Pending

\* a tool call that went through every step, after another request
C23_Witness ==
    /\ call.fn = "requests"
    /\ call.received = 2
    /\ call.sent = 2
    /\ last.sent
    /\ last.steps = C23_Pipeline

-----------------------------------------------------------------------------
(* The STDIO wrapper (README.md): an MCP server over standard input and output
   whose two handlers forward to the HTTP server at SERVER_URL with fetch, and
   formatToolResult of src/src/utils/mcp-protocol.js, which the wrapper does
   not use. *)

\* formatToolResult(result)
formatToolResult(result) ==
    [content |-> << [type |-> "text", text |-> JSONStringify(result)] >>,
     isError |-> ("success" \in DOMAIN result /\ result.success = FALSE)]

\* fetch(...) rejected: the HTTP server cannot be reached
FetchFailed == [kind |-> "rejected", fault |-> <<"f","e","t","c","h"," ","f","a","i","l","e","d">>]

\* response.json() rejected: the body of the reply is not JSON
NotJSON == [kind |-> "notjson", fault |-> <<"i","n","v","a","l","i","d"," ","j","s","o","n"," ","r","e","s","p","o","n","s","e"," ","b","o","d","y">>]

\* await fetch(...); await response.json(): the body the HTTP server answers a
\* request with
Fetched(reply) == [kind |-> "json", data |-> reply.body]

\* the reply of the server of src/src/server.js to a request, its await included
ServerReply(requiredApiKey, req, t) ==
    LET reply == Route(requiredApiKey, req, t)
    IN  IF reply.kind = "await"
        THEN Continue([req |-> req, promise |-> reply.promise, steps |-> reply.steps], t)
        ELSE reply

\* what is listening at SERVER_URL: the server of src/src/server.js, the
\* stand-alone server of src/server.js, nothing, or something that does not
\* answer in JSON
Upstreams == {"server", "stand-alone", "down", "not json"}

fetch(upstream, requiredApiKey, req, t) ==
    CASE upstream = "server" -> Fetched(ServerReply(requiredApiKey, req, t))
      [] upstream = "stand-alone" -> Fetched(simple_Route(req))
      [] upstream = "down" -> FetchFailed
      [] OTHER -> NotJSON

\* data[key] is truthy, for a key that holds an object or a JS value when it
\* is there: an object is truthy
Truthy(data, key) ==
    /\ key \in DOMAIN data
    /\ ~("t" \in DOMAIN data[key] /\ Falsy(data[key]))

\* server.setRequestHandler(ListToolsRequestSchema, ...); result.tools is a
\* list when it is there, and a list is truthy
wrapper_listTools(fetched) ==
    IF fetched.kind # "json" THEN Fulfilled([tools |-> << >>])
    ELSE IF Truthy(fetched.data, "result") /\ "tools" \in DOMAIN fetched.data.result
    THEN Fulfilled([tools |-> fetched.data.result.tools])
    ELSE Fulfilled([tools |-> << >>])

\* `Error: ${data.error?.message || "Unknown error"}`
wrapper_ErrorText(data) ==
    IF "error" \in DOMAIN data /\ Truthy(data.error, "message")
    THEN Msg("Error: %", <<data.error.message>>)
    ELSE Msg("Error: %", <<"Unknown error">>)

\* a call handler that reports the outcome as formatToolResult does
wrapper_callToolTry_AsFormatToolResult(request, fetched) ==
    IF request.params = "undefined" THEN Throw(ParamsFault, << >>)
    ELSE IF fetched.kind # "json" THEN Throw(fetched.fault, << >>)
    ELSE IF Truthy(fetched.data, "result")
    THEN [kind |-> "return",
          value |-> formatToolResult(fetched.data.result.content[1].text.json)]
    ELSE [kind |-> "return",
          value |-> [content |-> << [type |-> "text",
                                     text |-> wrapper_ErrorText(fetched.data)] >>,
                     isError |-> TRUE]]

\* server.setRequestHandler(CallToolRequestSchema, ...): the try block
wrapper_callToolTry(request, fetched) ==
    IF request.params = "undefined" THEN Throw(ParamsFault, << >>)
    ELSE IF fetched.kind # "json" THEN Throw(fetched.fault, << >>)
    ELSE IF Truthy(fetched.data, "result")
    THEN [kind |-> "return",
          value |-> [content |-> fetched.data.result.content, isError |-> FALSE]]
    ELSE [kind |-> "return",
          value |-> [content |-> << [type |-> "text",
                                     text |-> wrapper_ErrorText(fetched.data)] >>,
                     isError |-> TRUE]]

\* server.setRequestHandler(CallToolRequestSchema, ...): the catch block
wrapper_callToolCatch(outcome) ==
    IF outcome.kind = "throw"
    THEN Fulfilled([content |-> << [type |-> "text",
                                    text |-> Msg("Error calling tool: %",
                                                 <<outcome.fault>>)] >>,
                    isError |-> TRUE])
    ELSE Fulfilled(outcome.value)

wrapper_callTool(request, fetched) ==
    wrapper_callToolCatch(wrapper_callToolTry(request, fetched))

\* the tools/call requests the wrapper is sent: params { name, arguments }, or
\* no params
WrapperRequests ==
    { [params |-> "object", name |-> n, arguments |-> a] :
        n \in Names,
        a \in { NonObject("undefined"), EmptyObject,
                PeriodArgs(JSString(<<"L","a","s","t"," ","M","o","n","t","h">>), JSString(<<"O","v","e","r","v","i","e","w">>)),
                PeriodArgs(JSString(<<"N","e","x","t"," ","D","e","c","a","d","e">>), JSString(<<"O","v","e","r","v","i","e","w">>)),
                PeriodArgs(JSString(<<>>), JSString(<<"O","v","e","r","v","i","e","w">>)),
                RangeArgs(<<"2","0","2","4","-","0","2","-","0","1">>, <<"2","0","2","4","-","0","1","-","0","1">>, <<"O","v","e","r","v","i","e","w">>),
                RangeArgs(<<"2","0","2","4","-","0","6","-","0","1">>, <<"2","0","2","4","-","0","6","-","1","6">>, <<"O","v","e","r","v","i","e","w">>) } }
    \cup { [params |-> "undefined", name |-> NoName, arguments |-> NonObject("undefined")] }

InitWrapper ==
    /\ apiKey \in { Undefined, JSString(Key1) }
    /\ clock = 0
    /\ suspended = NoHandler
    /\ last = NoResponse
    /\ call = NoCall

\* a tools/call request is handled: the wrapper posts { name, arguments } to
\* /mcp/tools/call without a credential and turns the reply into its result
WrapperCallTool ==
    /\ \E request \in WrapperRequests, upstream \in Upstreams :
        LET fetched == fetch(upstream, apiKey,
                             ToolsCallRequest(Undefined, request.name, request.arguments),
                             Now(clock))
        IN  call' = [fn |-> "wrapper", handler |-> "call", request |-> request,
                     upstream |-> upstream, fetched |-> fetched,
                     returned |-> wrapper_callTool(request, fetched)]
    /\ UNCHANGED <<apiKey, clock, suspended, last>>

\* a tools/list request is handled: the wrapper gets /mcp/tools without a
\* credential
WrapperListTools ==
    /\ \E upstream \in Upstreams :
        LET fetched == fetch(upstream, apiKey, ToolsListRequest(Undefined), Now(clock))
        IN  call' = [fn |-> "wrapper", handler |-> "list", request |-> << >>,
                     upstream |-> upstream, fetched |-> fetched,
                     returned |-> wrapper_listTools(fetched)]
    /\ UNCHANGED <<apiKey, clock, suspended, last>>

NextWrapper == WrapperCallTool \/ WrapperListTools \/ Tick

SpecWrapper == InitWrapper /\ [][NextWrapper]_vars

-----------------------------------------------------------------------------
\* the HTTP server's reply arrived and has a result
C24_HasResult ==
    call.fetched.kind = "json" /\ "result" \in DOMAIN call.fetched.data

\* a list with at least one block of text
C24_IsContentList(content) ==
    /\ Len(content) >= 1
    /\ \A i \in 1..Len(content) : content[i].type = "text"

C24_CallHandler ==
    (call.fn = "wrapper" /\ call.handler = "call") =>
        /\ ~call.returned.threw
        /\ DOMAIN call.returned.value = {"content", "isError"}
        /\ C24_IsContentList(call.returned.value.content)
        /\ call.returned.value.isError = ~C24_HasResult
        /\ C24_HasResult =>
             call.returned.value.content = call.fetched.data.result.content

C24_ListHandler ==
    (call.fn = "wrapper" /\ call.handler = "list") =>
        /\ ~call.returned.threw
        /\ call.returned.value.tools =
             IF C24_HasResult /\ "tools" \in DOMAIN call.fetched.data.result
             THEN call.fetched.data.result.tools
             ELSE << >>

(* C24: the call handler of the STDIO wrapper never raises and returns a
   content list with isError, which is false exactly when the HTTP server's
   reply has a result, whatever the success flag of the outcome it wraps, and
   true when the reply has no result or the request fails; the list handler
   returns the reply's result.tools, or an empty list when the reply has none
   or the request fails. *)
C24_WrapperNeverRaises == C24_CallHandler /\ C24_ListHandler

\* the reply wraps an outcome with success false and the wrapper returns it
\* with isError false
C24_Witness ==
    /\ call.fn = "wrapper"
    /\ call.handler = "call"
    /\ C24_HasResult
    /\ ~call.fetched.data.result.content[1].text.json.success
    /\ ~call.returned.value.isError

=============================================================================
